---- MODULE Spec2Model ----
(***************************************************************************)
(* Verification model of the DBM reconstruction engine of                  *)
(* uppyyl-state-constructor: the Rinast vector-transformation system with  *)
(* its graph and counter reductors, and the OC (approximate + constrain)   *)
(* pipeline.                                                               *)
(***************************************************************************)
EXTENDS Integers, Sequences, FiniteSets, TLC

(***************************************************************************)
(* Bounds of the model.                                                    *)
(***************************************************************************)
\* number of clocks of the observed systems, reference clock (index 0) included
ClockCount == 3
\* largest reset value / largest magnitude of a constraint value in a trace
MaxVal == 1
\* largest number of operations of an observed trace
MaxTrace == 3

\* the observed system: its number of clocks, the operations its traces are
\* made of and the largest trace length observed
VARIABLE system

\* TASystem.clock_count, DBMSystem.clock_count, len(dbm.clocks): the number
\* of clocks, reference clock included
clock_count == system.clock_count
operations == system.operations
trace_limit == system.trace_limit

VarCount == clock_count * clock_count
Indices == 0 .. (VarCount - 1)
ClockIdx == 0 .. (clock_count - 1)

(***************************************************************************)
(* rinast/dbm/db_value.py                                                  *)
(***************************************************************************)
\* sys.maxsize, the infinity sentinel.  It is only ever compared for
\* equality and never an operand of an addition; the model uses the largest
\* 32-bit value (the "Integer.MAX_VALUE" of the class docstring).
MaxSize == 2147483647

DBValue(value, bound) ==
    [value |-> value, bound |-> IF value = MaxSize THEN FALSE ELSE bound]

add(self, other) ==
    IF self.value = MaxSize \/ other.value = MaxSize
    THEN [value |-> MaxSize, bound |-> FALSE]
    ELSE [value |-> self.value + other.value, bound |-> self.bound /\ other.bound]

compare_to(self, other) ==
    IF self.value = other.value
    THEN (IF self.bound = other.bound THEN 0 ELSE IF self.bound THEN 1 ELSE -1)
    ELSE IF self.value = MaxSize THEN 1
    ELSE IF other.value = MaxSize THEN -1
    ELSE self.value - other.value

(***************************************************************************)
(* rinast/dbm: the four specification mappings                             *)
(***************************************************************************)
StaticAssignment(value) == [kind |-> "StaticAssignment", value |-> value]
StaticAddition(adder) == [kind |-> "StaticAddition", value |-> adder]
MinimumAssignment(value) == [kind |-> "MinimumAssignment", value |-> value]
MinimumAddition == [kind |-> "MinimumAddition", value |-> DBValue(0, TRUE)]

\* SpecificationMapping.map of the four mapping classes
MinimumAdditionMap(parameters) ==
    LET sum_val == add(parameters[2], parameters[3])
    IN  IF compare_to(sum_val, parameters[1]) < 0 THEN sum_val ELSE parameters[1]

MinimumAssignmentMap(value, parameters) ==
    IF compare_to(value, parameters[1]) < 0 THEN value ELSE parameters[1]

map(mapping, parameters) ==
    CASE mapping.kind = "StaticAssignment" -> mapping.value
      [] mapping.kind = "StaticAddition" -> add(parameters[1], mapping.value)
      [] mapping.kind = "MinimumAssignment" -> MinimumAssignmentMap(mapping.value, parameters)
      [] mapping.kind = "MinimumAddition" -> MinimumAdditionMap(parameters)

(***************************************************************************)
(* rinast/trans/simple_transformation.py, compound_transformation.py       *)
(* A SimpleTransformation is its specificationSet (a sequence of entries), *)
(* a CompoundTransformation is its sequence of SimpleTransformations.      *)
(***************************************************************************)
SpecificationEntry(variable, parameters, mapping) ==
    [variable |-> variable, parameters |-> parameters, mapping |-> mapping]

get_parameters(e, evaluation) ==
    [i \in 1 .. Len(e.parameters) |-> evaluation[e.parameters[i]]]

RECURSIVE SimpleApplyFrom(_, _, _, _)
SimpleApplyFrom(specificationSet, k, evaluation, result) ==
    IF k > Len(specificationSet) THEN result
    ELSE LET e == specificationSet[k]
         IN  SimpleApplyFrom(specificationSet, k + 1, evaluation,
                 [result EXCEPT ![e.variable] = map(e.mapping, get_parameters(e, evaluation))])

\* SimpleTransformation.apply: every entry reads the evaluation passed in
SimpleApply(specificationSet, evaluation) ==
    SimpleApplyFrom(specificationSet, 1, evaluation, evaluation)

SimpleReadSet_OfFirstParameters(specificationSet) ==
    {specificationSet[k].parameters[1] :
        k \in {n \in 1 .. Len(specificationSet) : Len(specificationSet[n].parameters) > 0}}

SimpleReadSet(specificationSet) ==
    UNION {{specificationSet[k].parameters[i] : i \in 1 .. Len(specificationSet[k].parameters)}
              : k \in 1 .. Len(specificationSet)}

SimpleWriteSet(specificationSet) ==
    {specificationSet[k].variable : k \in 1 .. Len(specificationSet)}

RECURSIVE CompoundApplyFrom(_, _, _)
CompoundApplyFrom(transformations, k, result) ==
    IF k > Len(transformations) THEN result
    ELSE LET next == SimpleApply(transformations[k], result)
         IN  \* (the test has the part's result computed before the next part starts)
             IF DOMAIN next = {} THEN next
             ELSE CompoundApplyFrom(transformations, k + 1, next)

\* CompoundTransformation.apply: each part sees the previous part's result
CompoundApply(transformations, evaluation) ==
    CompoundApplyFrom(transformations, 1, evaluation)

RECURSIVE CompoundReadFrom(_, _, _, _)
CompoundReadFrom(transformations, k, reads, writes) ==
    IF k > Len(transformations) THEN reads
    ELSE CompoundReadFrom(transformations, k + 1,
             reads \cup (SimpleReadSet(transformations[k]) \ writes),
             writes \cup SimpleWriteSet(transformations[k]))

CompoundReadSet(transformations) == CompoundReadFrom(transformations, 1, {}, {})

CompoundWriteSet(transformations) ==
    UNION {SimpleWriteSet(transformations[k]) : k \in 1 .. Len(transformations)}

(***************************************************************************)
(* rinast/dbm/dbm_system.py: the transformations of a DBM system.          *)
(* A transformation object is identified by the parameters it is cached    *)
(* under (get_reset_transformation / get_constraint_transformation), which *)
(* are also its TransformationInfo.                                        *)
(***************************************************************************)
UpT == [type |-> "Up", clock1 |-> 0, clock2 |-> 0, value |-> DBValue(0, TRUE)]
UrgentT == [type |-> "Urgent", clock1 |-> 0, clock2 |-> 0, value |-> DBValue(0, TRUE)]
ResetT(clock, value) ==
    [type |-> "Reset", clock1 |-> clock, clock2 |-> 0, value |-> DBValue(value, TRUE)]
ConstraintT(clock1, clock2, constraint) ==
    [type |-> "Constraint", clock1 |-> clock1, clock2 |-> clock2, value |-> constraint]

\* pairs of indices in row-major order (the order of two nested loops)
RECURSIVE SortedPairs(_)
SortedPairs(S) ==
    IF S = {} THEN <<>>
    ELSE LET m == CHOOSE x \in S : \A y \in S : x[1] < y[1] \/ (x[1] = y[1] /\ x[2] <= y[2])
         IN  <<m>> \o SortedPairs(S \ {m})

create_up_transformation ==
    [k \in 1 .. (clock_count - 1) |->
        SpecificationEntry(k * clock_count, <<>>, StaticAssignment(DBValue(MaxSize, FALSE)))]

\* the pairs (i, top) of different clocks other than the reference clock,
\* in loop order
UrgentPairs ==
    SortedPairs({p \in (1 .. (clock_count - 1)) \X (1 .. (clock_count - 1)) : p[1] # p[2]})

create_urgent_transformation ==
    [k \in 1 .. Len(UrgentPairs) |->
        LET lft == UrgentPairs[k][1] * clock_count
            top == UrgentPairs[k][2]
        IN  SpecificationEntry(lft + top, <<lft + top, lft, top>>, MinimumAddition)]

\* the clocks other than the reset clock, in loop order
OtherClocks(clock) ==
    [k \in 1 .. (clock_count - 1) |-> IF k - 1 < clock THEN k - 1 ELSE k]

create_reset_transformation_FromRowOfClock(clock, value) ==
    LET neg == StaticAddition(DBValue(0 - value, TRUE))
        pos == StaticAddition(DBValue(value, TRUE))
        tops == OtherClocks(clock)
    IN  [k \in 1 .. 2 * (clock_count - 1) |->
            LET top == tops[(k + 1) \div 2]
            IN  IF k % 2 = 1
                THEN SpecificationEntry(top * clock_count + clock, <<top * clock_count>>, neg)
                ELSE SpecificationEntry(clock * clock_count + top, <<clock * clock_count + top>>, pos)]

create_reset_transformation(clock, value) ==
    LET neg == StaticAddition(DBValue(0 - value, TRUE))
        pos == StaticAddition(DBValue(value, TRUE))
        tops == OtherClocks(clock)
    IN  [k \in 1 .. 2 * (clock_count - 1) |->
            LET top == tops[(k + 1) \div 2]
            IN  IF k % 2 = 1
                THEN SpecificationEntry(top * clock_count + clock, <<top * clock_count>>, neg)
                ELSE SpecificationEntry(clock * clock_count + top, <<top>>, pos)]

create_constraint_transformation(clock1, clock2, constraint) ==
    LET index == clock1 * clock_count + clock2
    IN  [p \in 1 .. (1 + 2 * VarCount) |->
            IF p = 1
            THEN <<SpecificationEntry(index, <<index>>, MinimumAssignment(constraint))>>
            ELSE LET ij == (p - 2) \div 2
                     i == ij \div clock_count
                     j == ij % clock_count
                     c == IF (p - 2) % 2 = 0 THEN clock1 ELSE clock2
                 IN  <<SpecificationEntry(ij, <<ij, i * clock_count + c, c * clock_count + j>>,
                                          MinimumAddition)>>]

\* Transformation.apply / get_read_set / get_write_set by kind of object
apply(t, evaluation) ==
    CASE t.type = "Up" -> SimpleApply(create_up_transformation, evaluation)
      [] t.type = "Urgent" -> SimpleApply(create_urgent_transformation, evaluation)
      [] t.type = "Reset" ->
            SimpleApply(create_reset_transformation(t.clock1, t.value.value), evaluation)
      [] t.type = "Constraint" ->
            CompoundApply(create_constraint_transformation(t.clock1, t.clock2, t.value), evaluation)

get_read_set(t) ==
    CASE t.type = "Up" -> SimpleReadSet(create_up_transformation)
      [] t.type = "Urgent" -> SimpleReadSet(create_urgent_transformation)
      [] t.type = "Reset" -> SimpleReadSet(create_reset_transformation(t.clock1, t.value.value))
      [] t.type = "Constraint" ->
            CompoundReadSet(create_constraint_transformation(t.clock1, t.clock2, t.value))

get_write_set(t) ==
    CASE t.type = "Up" -> SimpleWriteSet(create_up_transformation)
      [] t.type = "Urgent" -> SimpleWriteSet(create_urgent_transformation)
      [] t.type = "Reset" -> SimpleWriteSet(create_reset_transformation(t.clock1, t.value.value))
      [] t.type = "Constraint" ->
            CompoundWriteSet(create_constraint_transformation(t.clock1, t.clock2, t.value))

\* DBMSystem.create_evaluation: the all-zero evaluation
create_evaluation == [i \in Indices |-> DBValue(0, TRUE)]

(***************************************************************************)
(* State.                                                                  *)
(***************************************************************************)
VARIABLES
    \* DBMReconstructorRinast: position of the running call ("idle" between
    \* calls, "gen" inside generate_sequence), the operations of the input
    \* trace consumed so far, and the sequence returned by the last call
    pc, seq_full, returned,
    \* the zone of the observed system, to which every operation of the trace
    \* is applied as it is observed
    dbm,
    \* TransformationSystem (with the GraphReductor)
    currentEvaluation, invalidated, transCount,
    \* GraphReductor: evaluations maps an Evaluation to the edge set of its
    \* Node, projections maps a Projection to an Edge
    evaluations, projections, initialNode, currentNode, dijkstra,
    \* how often eliminate() of the GraphReductor was called since the last
    \* apply_transformation
    eliminations

VARIABLES
    \* a second TransformationSystem, constructed with a CounterReductor, that
    \* records the transformations of the same trace: its reductor, its
    \* currentEvaluation and transCount, the exception a call on it raised
    \* ("" if none) and the list its get_reduced_path returned (<<>> before)
    crReductor, crCurrentEvaluation, crTransCount, crRaised, crPath

counterVars == <<crReductor, crCurrentEvaluation, crTransCount, crRaised, crPath>>

rinastVars == <<system, pc, seq_full, returned, dbm, currentEvaluation, invalidated, transCount,
                evaluations, projections, initialNode, currentNode, dijkstra, eliminations,
                counterVars>>

VARIABLES
    \* the OC constructor: data_for_rec["dbm_init"] (the initial zone), the
    \* clocks of its DBMApproximatorViaSeq, and the last call on it with the
    \* data it was given and the values it returned; steps counts the
    \* operations of a system of which only the zone is observed
    dbm_init, apx_clocks, oc, steps,
    \* its on_the_fly flag, and the sequences its five generators store
    \* together with the dbm_source of its DBMConstrainerViaRCS
    on_the_fly, generators

ocVars == <<dbm_init, apx_clocks, oc, steps, on_the_fly, generators>>

VARIABLES
    \* the seq_rec of the Trivial constructor, and the last
    \* time_measured_reconstruction on the Rinast or on the Trivial
    \* constructor: which of them, whether its data had no dbm_init, what it
    \* raised, and how many such calls there were; for a generate_sequence
    \* or update_sequence of the Rinast constructor, how many operations of
    \* the trace it had replayed before
    trivial_seq_rec, last_call

entryVars == <<trivial_seq_rec, last_call>>

VARIABLES
    \* an Evaluation object of a client of the transformations, and the
    \* last Transformation.apply on it: the transformation, the Evaluation
    \* passed in and the Evaluation returned
    passed, applied

VARIABLES
    \* the DBValue objects by identity: cells[k] holds the fields of the
    \* k-th object constructed; value_call is the last call of a DBValue
    \* method: the method, the objects it was called with and the object it
    \* returned
    cells, value_call,
    \* the Evaluation objects by identity: evaluation_objects[e] is the list "values" of
    \* the e-th Evaluation constructed, a list of DBValue objects; held lists
    \* the transformations the DBMSystem has created with the DBValue objects
    \* their mappings hold; nodes lists the Evaluation objects stored as
    \* GraphReductor nodes with the values they had when stored; system_current is
    \* the currentEvaluation of the TransformationSystem and its transCount
    evaluation_objects, held, nodes, system_current

heapVars == <<cells, value_call, evaluation_objects, held, nodes, system_current>>

VARIABLES
    \* the Uppaal System handed to the model adaptor (templates, channels,
    \* processes), and the active location of every process of a run of it
    nta, location_state,
    \* the operation sequence the model adaptor was given
    construction_seq

adaptedVars == <<nta, location_state, construction_seq>>

VARIABLES
    \* the DijkstraAlgorithm object of GraphReductor.eliminate while
    \* find_shortest_path runs: distances, predecessors, transformations,
    \* the priority queue and the target
    search

VARIABLES
    \* the last call of get_all_pos_prefix_path by a client: the graph, the
    \* start node and what the call returned
    walk

pureVars == <<passed, applied, heapVars, adaptedVars, search, walk, walk>>

vars == <<rinastVars, ocVars, entryVars, pureVars>>

(***************************************************************************)
(* rinast/trans/evaluation.py                                              *)
(***************************************************************************)
\* the elements of a finite set of indices in ascending order (list.sort())
RECURSIVE SortedSeq(_)
SortedSeq(S) ==
    IF S = {} THEN <<>>
    ELSE LET m == CHOOSE x \in S : \A y \in S : x <= y
         IN  <<m>> \o SortedSeq(S \ {m})

\* Evaluation.project: the values at the (sorted) indices, as a new vector
project(evaluation, variables) ==
    [k \in 1 .. Len(variables) |-> evaluation[variables[k]]]

\* Projector.compare: values is the vector of the Evaluation the projector
\* was taken from, evaluation an already projected Evaluation
ProjectorCompare(variables, values, evaluation) ==
    /\ Len(evaluation) = Len(variables)
    /\ \A i \in 1 .. Len(variables) : evaluation[i] = values[variables[i]]

(***************************************************************************)
(* rinast/trans/reduce/graph: graph_reductor.py, dijkstra_algorithm.py     *)
(***************************************************************************)
Edge(transformation, target) == [transformation |-> transformation, target |-> target]
Projection(variables, projection) == [variables |-> variables, projection |-> projection]

\* dict assignment d[k] = v
DictPut(d, k, v) == [x \in (DOMAIN d) \cup {k} |-> IF x = k THEN v ELSE d[x]]

\* the index list the projection of an applied transformation is taken on
ProjectionVariables_WithoutReadSet(transformation) ==
    SortedSeq(Indices \ get_write_set(transformation))

ProjectionVariables(transformation) ==
    SortedSeq((Indices \ get_write_set(transformation)) \cup get_read_set(transformation))

\* GraphReductor.apply without the edges for matching projections
GraphApplyEvaluations_OnlyCurrent(evals, projs, current, evaluation, transformation, transformed_evaluation) ==
    LET withTarget == IF transformed_evaluation \in DOMAIN evals THEN evals
                      ELSE DictPut(evals, transformed_evaluation, {})
        edge == Edge(transformation, transformed_evaluation)
    IN  [key \in DOMAIN withTarget |->
            withTarget[key] \cup (IF key = current THEN {edge} ELSE {})]

\* GraphReductor.apply: the new value of self.evaluations
GraphApplyEvaluations_WithoutCompare(evals, projs, current, evaluation, transformation, transformed_evaluation) ==
    LET withTarget == IF transformed_evaluation \in DOMAIN evals THEN evals
                      ELSE DictPut(evals, transformed_evaluation, {})
        edge == Edge(transformation, transformed_evaluation)
    IN  [key \in DOMAIN withTarget |->
            withTarget[key]
              \cup (IF key = current THEN {edge} ELSE {})
              \cup (IF key = transformed_evaluation THEN {projs[q] : q \in DOMAIN projs}
                    ELSE {})]

GraphApplyEvaluations(evals, projs, current, evaluation, transformation, transformed_evaluation) ==
    LET withTarget == IF transformed_evaluation \in DOMAIN evals THEN evals
                      ELSE DictPut(evals, transformed_evaluation, {})
        edge == Edge(transformation, transformed_evaluation)
        variables == ProjectionVariables(transformation)
        projected == project(evaluation, variables)
        matching == {key \in DOMAIN withTarget : ProjectorCompare(variables, key, projected)}
        stored == {projs[key] : key \in
                      {q \in DOMAIN projs :
                          ProjectorCompare(q.variables, transformed_evaluation, q.projection)}}
    IN  [key \in DOMAIN withTarget |->
            withTarget[key]
              \cup (IF key = current \/ key \in matching THEN {edge} ELSE {})
              \cup (IF key = transformed_evaluation THEN stored ELSE {})]

\* GraphReductor.apply: the new value of self.projections
GraphApplyProjections(projs, evaluation, transformation, transformed_evaluation) ==
    LET variables == ProjectionVariables(transformation)
    IN  DictPut(projs, Projection(variables, project(evaluation, variables)),
                Edge(transformation, transformed_evaluation))

\* DijkstraAlgorithm.find_shortest_path: the nodes in the order of their
\* distance from the initial node; layer d holds the nodes the loop gives
\* distance d (every edge has weight 1)
RECURSIVE Layers(_, _, _)
Layers(evals, seen, frontier) ==
    IF frontier = {} THEN <<>>
    ELSE LET next == {e.target : e \in UNION {evals[n] : n \in frontier}} \ seen
         IN  <<frontier>> \o Layers(evals, seen \cup next, next)

\* DijkstraAlgorithm.get_shortest_path: the transformation lists the
\* predecessor map can spell for a node of layer d.  Which predecessor and
\* which of several parallel edges the search records depends on the heap
\* order among nodes of equal distance and on the iteration order of the
\* edge set; every choice is a possible outcome.
RECURSIVE PathsTo(_, _, _, _)
PathsTo(evals, layers, node, d) ==
    IF d = 1 THEN {<<>>}
    ELSE UNION {UNION {{Append(p, e.transformation) : p \in PathsTo(evals, layers, u, d - 1)}
                          : e \in {f \in evals[u] : f.target = node}}
                   : u \in layers[d - 1]}

\* walks of as many edges as the graph has nodes but one
ShortestPaths_OfAnyLength(evals, initial, target) ==
    LET n == Cardinality(DOMAIN evals)
    IN  PathsTo(evals, [d \in 1 .. n |-> DOMAIN evals], target, n)

\* path.append in place of path.insert(0, ...)
ShortestPaths_Appending(evals, initial, target) ==
    LET layers == Layers(evals, {initial}, {initial})
        ds == {d \in 1 .. Len(layers) : target \in layers[d]}
        Backwards(path) ==
            LET reversed == [k \in 1 .. Len(path) |-> path[Len(path) + 1 - k]]
            IN  IF reversed = <<>> THEN <<>> ELSE reversed
    IN  IF ds = {} THEN {<<>>}
        ELSE {Backwards(path) : path \in PathsTo(evals, layers, target, CHOOSE d \in ds : TRUE)}

ShortestPaths(evals, initial, target) ==
    LET layers == Layers(evals, {initial}, {initial})
        ds == {d \in 1 .. Len(layers) : target \in layers[d]}
    IN  IF ds = {} THEN {<<>>}
        ELSE PathsTo(evals, layers, target, CHOOSE d \in ds : TRUE)

(***************************************************************************)
(* rinast/dbm/dbm_system.py, rinast/trans/transformation_system.py         *)
(***************************************************************************)
\* TransformationSystem.apply_transformation with the GraphReductor
apply_transformation(transformation) ==
    LET result == apply(transformation, currentEvaluation)
    IN  /\ evaluations' = GraphApplyEvaluations(evaluations, projections, currentNode,
                              currentEvaluation, transformation, result)
        /\ projections' = GraphApplyProjections(projections, currentEvaluation,
                              transformation, result)
        /\ currentNode' = result
        /\ currentEvaluation' = result
        /\ transCount' = transCount + 1
        /\ invalidated' = TRUE
        /\ eliminations' = 0
        /\ UNCHANGED <<initialNode, dijkstra>>

\* ApplyPath: a transformation list applied in order from an evaluation
\* (the loop of DBMSystem.verify_reconstruction_path)
RECURSIVE ApplyPath(_, _)
ApplyPath(path, evaluation) ==
    IF path = <<>> THEN evaluation
    ELSE ApplyPath(Tail(path), apply(Head(path), evaluation))

(***************************************************************************)
(* rinast/trans/reduce/counter_reductor.py                                 *)
(***************************************************************************)
UniqueTransformation(transformation, id) == [transformation |-> transformation, id |-> id]

\* the key None of the counters map (the virtual transformation that is
\* responsible for all variables initially)
NoneKey == UniqueTransformation([type |-> "None", clock1 |-> 0, clock2 |-> 0,
                                 value |-> DBValue(0, TRUE)], 0 - 1)

EmptyDict == [k \in {} |-> 0]

\* CounterReductor.__init__
CounterReductor ==
    [uniqueId |-> 0, transformations |-> <<>>, counters |-> EmptyDict,
     responsibilities |-> EmptyDict, uses |-> EmptyDict]

\* CounterReductor.initialize: only the counter of None is set; the
\* responsibility map stays empty
CounterInitialize(reductor) ==
    [reductor EXCEPT !.counters = DictPut(@, NoneKey, VarCount)]

\* the outcome of a call: the reductor as the call leaves it and the
\* exception it raised ("" if it returned)
Outcome(reductor, raised) == [reductor |-> reductor, raised |-> raised]

\* CounterReductor.apply, the loop over the read set.  A lookup of a key a
\* dict does not hold raises KeyError.  (The order in which a Python set is
\* iterated is not fixed; the model takes ascending order.)
RECURSIVE CounterReadLoop(_, _, _, _, _)
CounterReadLoop(reductor, unique, reads, k, loci) ==
    IF k > Len(reads) THEN Outcome([reductor EXCEPT !.uses = DictPut(@, unique, loci)], "")
    ELSE IF reads[k] \notin DOMAIN reductor.responsibilities THEN Outcome(reductor, "KeyError")
    ELSE LET responsible == reductor.responsibilities[reads[k]]
         IN  IF responsible \notin DOMAIN reductor.counters THEN Outcome(reductor, "KeyError")
             ELSE CounterReadLoop(
                     [reductor EXCEPT !.counters = DictPut(@, responsible, @[responsible] + 1)],
                     unique, reads, k + 1, loci \cup {responsible})

\* CounterReductor.apply, the loop over the write set and the final
\* "writes.size()", an attribute a Python set does not have
RECURSIVE CounterWriteLoop(_, _, _, _)
CounterWriteLoop(reductor, unique, writes, k) ==
    IF k > Len(writes) THEN Outcome(reductor, "AttributeError")
    ELSE IF writes[k] \notin DOMAIN reductor.responsibilities THEN Outcome(reductor, "KeyError")
    ELSE LET responsible == reductor.responsibilities[writes[k]]
         IN  IF responsible \notin DOMAIN reductor.counters THEN Outcome(reductor, "KeyError")
             ELSE CounterWriteLoop(
                     [reductor EXCEPT
                        !.counters = DictPut(@, responsible, @[responsible] - 1),
                        !.responsibilities = DictPut(@, writes[k], unique)],
                     unique, writes, k + 1)

\* CounterReductor.apply
CounterApply(reductor, transformation) ==
    LET unique == UniqueTransformation(transformation, reductor.uniqueId)
        recorded == [reductor EXCEPT !.uniqueId = @ + 1,
                                     !.transformations = Append(@, unique)]
        read == CounterReadLoop(recorded, unique, SortedSeq(get_read_set(transformation)), 1, {})
    IN  IF read.raised # "" THEN read
        ELSE CounterWriteLoop(read.reductor, unique,
                              SortedSeq(get_write_set(transformation)), 1)

\* list.remove: the list without its first element equal to t
RemoveFirst(list, t) ==
    LET k == CHOOSE j \in 1 .. Len(list) : list[j] = t /\ \A h \in 1 .. (j - 1) : list[h] # t
    IN  SubSeq(list, 1, k - 1) \o SubSeq(list, k + 1, Len(list))

\* CounterReductor.eliminate, one pass "for i in range(0, len(self.transformations))":
\* the range is fixed when the pass starts and "i -= 1" does not move it
RECURSIVE CounterEliminatePass(_, _, _, _)
CounterEliminatePass(reductor, i, n, fixpoint) ==
    IF i = n THEN [reductor |-> reductor, raised |-> "", fixpoint |-> fixpoint]
    ELSE IF i >= Len(reductor.transformations)
         THEN [reductor |-> reductor, raised |-> "IndexError", fixpoint |-> fixpoint]
    ELSE LET t == reductor.transformations[i + 1]
         IN  IF t \notin DOMAIN reductor.counters
             THEN [reductor |-> reductor, raised |-> "KeyError", fixpoint |-> fixpoint]
             ELSE IF reductor.counters[t] # 0
             THEN CounterEliminatePass(reductor, i + 1, n, fixpoint)
             ELSE LET removed == [reductor EXCEPT !.transformations = RemoveFirst(@, t)]
                  IN  IF t \notin DOMAIN removed.uses
                         \/ \E u \in removed.uses[t] : u \notin DOMAIN removed.counters
                      THEN [reductor |-> removed, raised |-> "KeyError", fixpoint |-> fixpoint]
                      ELSE CounterEliminatePass(
                              [removed EXCEPT !.counters =
                                  [key \in DOMAIN @ |->
                                      IF key \in removed.uses[t] THEN @[key] - 1 ELSE @[key]]],
                              i + 1, n, FALSE)

\* CounterReductor.eliminate: passes until one removes nothing
RECURSIVE CounterEliminate(_)
CounterEliminate(reductor) ==
    LET pass == CounterEliminatePass(reductor, 0, Len(reductor.transformations), TRUE)
    IN  IF pass.raised # "" \/ pass.fixpoint THEN Outcome(pass.reductor, pass.raised)
        ELSE CounterEliminate(pass.reductor)

\* CounterReductor.get_path
CounterGetPath(reductor) ==
    [k \in 1 .. Len(reductor.transformations) |-> reductor.transformations[k].transformation]

(***************************************************************************)
(* The zone type and the operations of a trace (spec sections 3 and 6).    *)
(* They belong to the simulator package the constructors import; their     *)
(* effect is taken from the specification's data model.                    *)
(***************************************************************************)
None == "None"
inf == MaxSize
\* the clock names of a system, reference clock first
AllClockNames == <<"T0_REF", "x", "y", "z", "u", "v", "w", "t">>
clock_names == SubSeq(AllClockNames, 1, clock_count)
ClockNameSet == {clock_names[k] : k \in 2 .. clock_count}

\* dbm.clocks.index(name); a constraint names the reference clock by None
ClockIndexOf(name) ==
    IF name = None THEN 0 ELSE (CHOOSE k \in 1 .. clock_count : clock_names[k] = name) - 1

Pairs == ClockIdx \X ClockIdx

DBMEntry(val, rel) == [val |-> val, rel |-> rel]

EntryAdd(a, b) ==
    IF a.val = inf \/ b.val = inf THEN DBMEntry(inf, "<")
    ELSE DBMEntry(a.val + b.val, IF a.rel = "<=" /\ b.rel = "<=" THEN "<=" ELSE "<")

EntryLess(a, b) ==
    IF a.val = b.val THEN a.rel = "<" /\ b.rel = "<="
    ELSE IF a.val = inf THEN FALSE
    ELSE IF b.val = inf THEN TRUE
    ELSE a.val < b.val

EntryMin(a, b) == IF EntryLess(b, a) THEN b ELSE a

\* a matrix with every entry computed (the identity on functions; the
\* comparison makes the entries of the matrix be computed once, instead of
\* at every later access)
Stored(Z) == LET matrix == Z IN IF matrix = <<>> THEN <<>> ELSE matrix

\* the zone in which every clock is 0
ZeroZone == [p \in Pairs |-> DBMEntry(0, "<=")]

\* close(): the canonical (tightest) form, by min-plus transitive closure
RECURSIVE CloseFrom(_, _)
CloseFrom(Z, k) ==
    IF k = clock_count THEN Z
    ELSE CloseFrom(Stored([p \in Pairs |->
                              EntryMin(Z[p], EntryAdd(Z[<<p[1], k>>], Z[<<k, p[2]>>]))]),
                   k + 1)

ZoneClose(Z) == CloseFrom(Z, 0)

\* a zone is empty when its closure has a negative cycle
ZoneIsEmpty(Z) ==
    LET C == ZoneClose(Z) IN \E i \in ClockIdx : EntryLess(C[<<i, i>>], DBMEntry(0, "<="))

\* Reset(clock, val): the standard DBM reset formula
ZoneReset(Z, c, val) ==
    Stored([p \in Pairs |->
        IF p[1] = c /\ p[2] # c THEN EntryAdd(DBMEntry(val, "<="), Z[<<0, p[2]>>])
        ELSE IF p[2] = c /\ p[1] # c THEN EntryAdd(Z[<<p[1], 0>>], DBMEntry(0 - val, "<="))
        ELSE Z[p]])

\* Constraint(clock1, clock2, rel, val): tighten the entry, then propagate
ZoneConstraint(Z, c1, c2, rel, val) ==
    ZoneClose([Z EXCEPT ![<<c1, c2>>] = EntryMin(Z[<<c1, c2>>], DBMEntry(val, rel))])

\* DelayFuture(): the upper bounds of the clocks (column 0) become +infinity
ZoneDelayFuture(Z) ==
    Stored([p \in Pairs |-> IF p[2] = 0 /\ p[1] # 0 THEN DBMEntry(inf, "<") ELSE Z[p]])

\* the operations of a trace
Reset(clock, val) == [op |-> "Reset", clock1 |-> clock, clock2 |-> None, rel |-> "<=", val |-> val]
Constraint(clock1, clock2, rel, val) ==
    [op |-> "Constraint", clock1 |-> clock1, clock2 |-> clock2, rel |-> rel, val |-> val]
DelayFuture == [op |-> "DelayFuture", clock1 |-> None, clock2 |-> None, rel |-> "<=", val |-> 0]
Close == [op |-> "Close", clock1 |-> None, clock2 |-> None, rel |-> "<=", val |-> 0]

OperationApply(operation, Z) ==
    CASE operation.op = "Reset" -> ZoneReset(Z, ClockIndexOf(operation.clock1), operation.val)
      [] operation.op = "Constraint" ->
            ZoneConstraint(Z, ClockIndexOf(operation.clock1), ClockIndexOf(operation.clock2),
                           operation.rel, operation.val)
      [] operation.op = "DelayFuture" -> ZoneDelayFuture(Z)
      [] operation.op = "Close" -> ZoneClose(Z)

\* DBMOperationSequence.apply: a left fold over the sequence
RECURSIVE SequenceApply(_, _)
SequenceApply(seq, Z) ==
    IF seq = <<>> THEN Z
    ELSE LET next == OperationApply(Head(seq), Z)
         IN  IF DOMAIN next = {} THEN next ELSE SequenceApply(Tail(seq), next)

(***************************************************************************)
(* oc/approximator/dbm_approximator_via_seq.py                             *)
(***************************************************************************)
Reverse(seq) == [k \in 1 .. Len(seq) |-> seq[Len(seq) + 1 - k]]

\* the concatenation of a list of lists
RECURSIVE Flatten(_)
Flatten(lists) == IF lists = <<>> THEN <<>> ELSE Head(lists) \o Flatten(Tail(lists))

\* "clock not in reset_clocks" for a list of clock names
InList(list, x) == \E k \in 1 .. Len(list) : list[k] = x

\* update_approximation_sequence_via_seq, the loop over reversed(seq_approx + seq)
RECURSIVE ApproximationScan(_, _, _, _, _, _)
ApproximationScan(reversed, k, clocks, reduced_sequence, reset_clocks, df_added) ==
    IF k > Len(reversed) THEN reduced_sequence
    ELSE LET operation == reversed[k]
             keep_df == operation.op = "DelayFuture" /\ ~df_added
             keep_reset == operation.op = "Reset" /\ ~InList(reset_clocks, operation.clock1)
             reduced == IF keep_df \/ keep_reset THEN Append(reduced_sequence, operation)
                        ELSE reduced_sequence
             resets == IF keep_reset THEN Append(reset_clocks, operation.clock1)
                       ELSE reset_clocks
             added == IF keep_df THEN TRUE ELSE IF keep_reset THEN FALSE ELSE df_added
         IN  IF Len(resets) = Len(clocks) THEN reduced
             ELSE ApproximationScan(reversed, k + 1, clocks, reduced, resets, added)

update_approximation_sequence_via_seq_KeepingFirstReset(seq_approx, seq, clocks) ==
    ApproximationScan(seq_approx \o seq, 1, clocks, <<>>, <<>>, FALSE)

update_approximation_sequence_via_seq_OfIncrementOnly(seq_approx, seq, clocks) ==
    Reverse(ApproximationScan(Reverse(seq), 1, clocks, <<>>, <<>>, FALSE))

update_approximation_sequence_via_seq(seq_approx, seq, clocks) ==
    Reverse(ApproximationScan(Reverse(seq_approx \o seq), 1, clocks, <<>>, <<>>, FALSE))

\* the Resets of a list of operations, in order
ResetsOf(seq) ==
    LET IsReset(operation) == operation.op = "Reset" IN SelectSeq(seq, IsReset)

generate_approximation_sequence_via_seq_WithoutDelays(seq, clocks) ==
    ResetsOf(update_approximation_sequence_via_seq(<<>>, seq, clocks))

generate_approximation_sequence_via_seq(seq, clocks) ==
    update_approximation_sequence_via_seq(<<>>, seq, clocks)

(***************************************************************************)
(* oc/approximator/dbm_approximator_via_dbm.py.  The value matrix holds    *)
(* the values of the entries only: the relations of its entries are        *)
(* never read.                                                             *)
(***************************************************************************)
\* the sum of two values of the value matrix; +inf stands for "no bound"
ValueAdd(a, b) ==
    IF a = inf \/ b = inf THEN inf
    ELSE IF a = 0 - inf \/ b = 0 - inf THEN 0 - inf
    ELSE a + b

\* tdbm.copy().negate().transpose(), with row 0 set to (0, <=)
ValueMatrix(dbm_target) ==
    [p \in Pairs |->
        IF p[1] = 0 \/ p[1] = p[2] THEN 0
        ELSE IF dbm_target[<<p[2], p[1]>>].val = inf THEN 0 - inf
        ELSE 0 - dbm_target[<<p[2], p[1]>>].val]

\* the weight of the edge from curr_node to a node of the value graph
EdgeWeight(dbm_target, curr_node, target) ==
    IF dbm_target[<<curr_node, target>>].val = inf THEN 0 - inf
    ELSE 0 - dbm_target[<<curr_node, target>>].val

\* get_all_pos_prefix_path: the complete paths the search can return from
\* the visited nodes; which one it returns depends on the order of the
\* out-edges of the nodes of the graph
RECURSIVE AllPosPrefixPaths(_, _, _)
AllPosPrefixPaths(dbm_target, visited_nodes, path_sum) ==
    IF Len(visited_nodes) = clock_count THEN {visited_nodes}
    ELSE LET curr_node == visited_nodes[Len(visited_nodes)]
             next == {t \in ClockIdx :
                         /\ ~InList(visited_nodes, t)
                         /\ EdgeWeight(dbm_target, curr_node, t) # 0 - inf
                         /\ path_sum + EdgeWeight(dbm_target, curr_node, t) >= 0}
         IN  UNION {AllPosPrefixPaths(dbm_target, Append(visited_nodes, t),
                                      path_sum + EdgeWeight(dbm_target, curr_node, t))
                       : t \in next}

\* "Update vDBM based on the all-positive-prefix path"
ValueMatrixAlong(vdbm, path) ==
    [p \in Pairs |->
        IF \E a \in 2 .. Len(path) : \E b \in a .. Len(path) :
              p[1] = path[a] /\ p[2] = path[b] /\ p[1] # p[2]
        THEN inf ELSE vdbm[p]]

\* vdbm.close()
RECURSIVE ValueCloseFrom(_, _)
ValueCloseFrom(vdbm, k) ==
    IF k = clock_count THEN vdbm
    ELSE ValueCloseFrom(
            Stored([p \in Pairs |->
                LET via == ValueAdd(vdbm[<<p[1], k>>], vdbm[<<k, p[2]>>])
                IN  IF via < vdbm[p] THEN via ELSE vdbm[p]]),
            k + 1)

\* "Obtain reset values and reset order from vDBM" and the final sequence:
\* the clocks of the path in reverse order, each reset to the lower value of
\* its interval and followed by a DelayFuture
ResetsAlong(vdbm, path) ==
    Flatten([k \in 1 .. (Len(path) - 1) |->
        LET val_index == path[Len(path) + 1 - k]
        IN  <<Reset(clock_names[val_index + 1], 0 - vdbm[<<0, val_index>>]), DelayFuture>>])

\* generate_approximation_sequence_via_dbm_target: the sequences it can
\* return; the empty set when no all-positive-prefix path exists
generate_approximation_sequence_via_dbm_target(dbm_target) ==
    {ResetsAlong(ValueCloseFrom(Stored(ValueMatrixAlong(ValueMatrix(dbm_target), path)), 0), path)
        : path \in AllPosPrefixPaths(dbm_target, <<0>>, 0)}

(***************************************************************************)
(* oc/constrainer: helper.py, dbm_constrainer_via_fcs.py,                  *)
(* dbm_constrainer_via_mcs.py, dbm_constrainer_via_rcs.py                  *)
(***************************************************************************)
\* get_zero_equivalence_classes, the while loop: a clock joins the class of
\* the first remaining clock when the two entries between them sum to 0
RECURSIVE ZeroEquivalenceFrom(_, _)
ZeroEquivalenceFrom(Z, remaining_clocks) ==
    IF remaining_clocks = <<>> THEN <<>>
    ELSE LET first == Head(remaining_clocks)
             Joins(c) == EntryAdd(Z[<<first, c>>], Z[<<c, first>>]).val = 0
             eq == <<first>> \o SelectSeq(Tail(remaining_clocks), Joins)
             Remains(c) == ~InList(eq, c)
         IN  <<eq>> \o ZeroEquivalenceFrom(Z, SelectSeq(remaining_clocks, Remains))

get_zero_equivalence_classes_KeepingJoinedClocks(Z) ==
    LET Joins(c) == EntryAdd(Z[<<0, c>>], Z[<<c, 0>>]).val = 0
        all == [k \in 1 .. clock_count |-> k - 1]
    IN  IF clock_count = 1 THEN << <<0>> >>
        ELSE << <<0>> \o SelectSeq(Tail(all), Joins) >>
                \o ZeroEquivalenceFrom(Z, Tail(all))

\* get_zero_equivalence_classes: the classes as lists of clock indices
get_zero_equivalence_classes(Z) ==
    ZeroEquivalenceFrom(Z, [k \in 1 .. clock_count |-> k - 1])

get_cycle_WithoutBackEdge(node_list) ==
    IF Len(node_list) <= 1 THEN <<>>
    ELSE [k \in 1 .. (Len(node_list) - 1) |-> <<node_list[k], node_list[k + 1]>>]

\* get_cycle: the chain over the list and the edge from its last to its first node
get_cycle(node_list) ==
    IF Len(node_list) <= 1 THEN <<>>
    ELSE Append([k \in 1 .. (Len(node_list) - 1) |-> <<node_list[k], node_list[k + 1]>>],
                <<node_list[Len(node_list)], node_list[1]>>)

\* the pairs (i, j), i # j, in row-major order
RowMajorPairs ==
    LET IsOffDiagonal(p) == p[1] # p[2]
    IN  SelectSeq([k \in 1 .. (clock_count * clock_count) |->
                   <<(k - 1) \div clock_count, (k - 1) % clock_count>>], IsOffDiagonal)

\* "Generate sequence from edges": one Constraint per edge with a finite entry
ConstraintsOfEdges(Z, edges) ==
    LET IsFinite(e) == Z[e].val # inf
        finite == SelectSeq(edges, IsFinite)
    IN  [k \in 1 .. Len(finite) |->
            Constraint(clock_names[finite[k][1] + 1], clock_names[finite[k][2] + 1],
                       Z[finite[k]].rel, Z[finite[k]].val)]

inf_entry_count(Z) == Cardinality({p \in Pairs : Z[p].val = inf})

WithClose_Always(Z, op_seq) == Append(op_seq, Close)

\* the trailing Close of MCS and RCS
WithClose(Z, op_seq) ==
    IF Len(op_seq) < clock_count * (clock_count - 1) - inf_entry_count(Z)
    THEN Append(op_seq, Close) ELSE op_seq

generate_constraint_sequence_via_fcs(dbm_target) ==
    ConstraintsOfEdges(dbm_target, RowMajorPairs)

InterClassEdges_OneDirection(eqs) ==
    LET OfClass(i) == [k \in 1 .. (Len(eqs) - i) |-> <<eqs[i][1], eqs[i + k][1]>>]
    IN  Flatten([i \in 1 .. Len(eqs) |-> OfClass(i)])

\* "Get inter-eq-class edges" of MCS: the first clocks of every ordered pair
\* of distinct classes
InterClassEdges(eqs) ==
    LET OfClass(i) ==
            LET Other(j) == j # i
                others == SelectSeq([j \in 1 .. Len(eqs) |-> j], Other)
            IN  [k \in 1 .. Len(others) |-> <<eqs[i][1], eqs[others[k]][1]>>]
    IN  Flatten([i \in 1 .. Len(eqs) |-> OfClass(i)])

generate_constraint_sequence_via_mcs(dbm_target) ==
    LET eqs == get_zero_equivalence_classes(dbm_target)
        edges == InterClassEdges(eqs) \o Flatten([i \in 1 .. Len(eqs) |-> get_cycle(eqs[i])])
    IN  WithClose(dbm_target, ConstraintsOfEdges(dbm_target, edges))

node_bound_for_all_permutations == 5

\* itertools.permutations: the orderings of a list, in lexicographic order of
\* the positions
RECURSIVE permutations(_)
permutations(list) ==
    IF list = <<>> THEN << <<>> >>
    ELSE Flatten([i \in 1 .. Len(list) |->
            LET rest == permutations(SubSeq(list, 1, i - 1) \o SubSeq(list, i + 1, Len(list)))
            IN  [k \in 1 .. Len(rest) |-> <<list[i]>> \o rest[k]]])

\* RCS: the entries on which source and target agree, in row-major order
FixedEdges_AllEdges(dbm_source, dbm_target) == RowMajorPairs

FixedEdges(dbm_source, dbm_target) ==
    LET Agree(p) == dbm_source[p] = dbm_target[p]
    IN  SelectSeq(RowMajorPairs, Agree)

\* "Get inter-eq-class edges" of RCS, the non-fixed ones: a pair of classes
\* with a fixed edge from the one to the other gets no constraint
NonFixedInterClassEdges_OfAllClocks(eqs, fixed_edges) ==
    LET Between(p) ==
            \E i, j \in 1 .. Len(eqs) : i # j /\ InList(eqs[i], p[1]) /\ InList(eqs[j], p[2])
    IN  SelectSeq(RowMajorPairs, Between)

NonFixedInterClassEdges(eqs, fixed_edges) ==
    LET OfClass(i) ==
            LET NeedsEdge(j) ==
                    /\ j # i
                    /\ ~\E k \in 1 .. Len(fixed_edges) :
                          /\ InList(eqs[i], fixed_edges[k][1])
                          /\ InList(eqs[j], fixed_edges[k][2])
                others == SelectSeq([j \in 1 .. Len(eqs) |-> j], NeedsEdge)
            IN  [k \in 1 .. Len(others) |-> <<eqs[i][1], eqs[others[k]][1]>>]
    IN  Flatten([i \in 1 .. Len(eqs) |-> OfClass(i)])

\* the loop over eq_i_permutations: the non-fixed edges of the cycle with the
\* most fixed edges, the first of them in the order of the permutations
\* (max_fixed_count is replaced only by a strictly larger fixed_count)
BestCycle(perms, fixed_edges) ==
    LET IsFixed(e) == InList(fixed_edges, e)
        IsNonFixed(e) == ~InList(fixed_edges, e)
        fixed_count == [k \in 1 .. Len(perms) |-> Len(SelectSeq(get_cycle(perms[k]), IsFixed))]
        counts == [k \in 1 .. Len(perms) |-> fixed_count[k]] @@ <<>>
        max_fixed_count ==
            CHOOSE m \in 0 .. Len(perms[1]) :
                /\ \E k \in 1 .. Len(perms) : counts[k] = m
                /\ \A k \in 1 .. Len(perms) : counts[k] <= m
        best == CHOOSE k \in 1 .. Len(perms) :
                    /\ counts[k] = max_fixed_count
                    /\ \A before \in 1 .. (k - 1) : counts[before] # max_fixed_count
    IN  SelectSeq(get_cycle(perms[best]), IsNonFixed)

\* the permutations examined for one class: all of them for a class of at
\* most node_bound_for_all_permutations clocks, else the one permutation
\* np.random.permutation drew (shuffled)
eq_i_permutations(eq_i, shuffled) ==
    IF Len(eq_i) <= node_bound_for_all_permutations THEN permutations(eq_i) ELSE <<shuffled>>

NonFixedCycleEdges_OfFirstPermutation(eq, fixed_edges, shuffled) ==
    LET IsNonFixed(e) == ~InList(fixed_edges, e)
    IN  SelectSeq(get_cycle(eq_i_permutations(eq, shuffled)[1]), IsNonFixed)

\* "Get intra-eq-class edges" of RCS for one class.  The members of the
\* drawn permutation come back from numpy as lists, which equal no member of
\* fixed_edges, so all edges of its cycle count as non-fixed.
NonFixedCycleEdges(eq, fixed_edges, shuffled) ==
    IF Len(eq) <= node_bound_for_all_permutations
    THEN BestCycle(eq_i_permutations(eq, shuffled), fixed_edges)
    ELSE BestCycle(eq_i_permutations(eq, shuffled), <<>>)

\* the permutations np.random.permutation can draw for the classes
RandomPermutations(eqs) ==
    [i \in 1 .. Len(eqs) |->
        IF Len(eqs[i]) <= node_bound_for_all_permutations THEN {eqs[i]}
        ELSE LET drawn == permutations(eqs[i]) IN {drawn[k] : k \in 1 .. Len(drawn)}]

generate_constraint_sequence_via_rcs(dbm_source, dbm_target, shuffled) ==
    LET fixed_edges == FixedEdges(dbm_source, dbm_target)
        eqs == get_zero_equivalence_classes(dbm_target)
        nonfixed == NonFixedInterClassEdges(eqs, fixed_edges)
                      \o Flatten([i \in 1 .. Len(eqs) |->
                                     NonFixedCycleEdges(eqs[i], fixed_edges, shuffled[i])])
    IN  WithClose(dbm_target, ConstraintsOfEdges(dbm_target, nonfixed))

(***************************************************************************)
(* rinast/uppaal/ta_system.py, rinast/dbm_constructor_rinast.py            *)
(***************************************************************************)
\* TASystem.get_clock(...).get_value(): the evaluation index of a clock name
get_clock(name) ==
    IF name = None THEN 0 ELSE (CHOOSE k \in 1 .. clock_count : clock_names[k] = name) - 1

\* the transformation _append_sequence_to_ta_system applies for an operation
\* (Close is skipped)
TransformationOf(operation) ==
    CASE operation.op = "Reset" -> ResetT(get_clock(operation.clock1), operation.val)
      [] operation.op = "Constraint" ->
            ConstraintT(get_clock(operation.clock1), get_clock(operation.clock2),
                        DBValue(operation.val, operation.rel \in {"<=", ">=", "=="}))
      [] operation.op = "DelayFuture" -> UpT

\* the operation _generate_sequence_from_ta_system_path renders for a
\* transformation of the reduced path, from its TransformationInfo
RenderedName(clock) == IF clock_names[clock + 1] = "t(0)" THEN None ELSE clock_names[clock + 1]

Render(trans) ==
    CASE trans.type = "Up" -> DelayFuture
      [] trans.type = "Reset" -> Reset(clock_names[trans.clock1 + 1], trans.value.value)
      [] trans.type = "Constraint" ->
            Constraint(RenderedName(trans.clock1), RenderedName(trans.clock2),
                       IF trans.value.bound THEN "<=" ELSE "<", trans.value.value)

RECURSIVE RenderFrom(_, _, _, _)
RenderFrom(path, k, op_seq, close_needed) ==
    IF k > Len(path) THEN (IF close_needed THEN Append(op_seq, Close) ELSE op_seq)
    ELSE LET trans == path[k]
             closed == IF trans.type # "Constraint" /\ close_needed
                       THEN Append(op_seq, Close) ELSE op_seq
         IN  RenderFrom(path, k + 1, Append(closed, Render(trans)), trans.type = "Constraint")

generate_sequence_from_path_ClosingFirst(path) == RenderFrom(path, 1, <<>>, TRUE)

generate_sequence_from_path(path) == RenderFrom(path, 1, <<>>, FALSE)

(***************************************************************************)
(* The observed traces: the operations a trace may hold.  An operation is  *)
(* observed only if it leaves the zone of the observed system non-empty.   *)
(***************************************************************************)
\* a system whose traces are built from every reset and every single- and
\* double-clock constraint with small values
BroadSystem(n) ==
    LET names == {AllClockNames[k] : k \in 2 .. n}
    IN  [clock_count |-> n, trace_limit |-> MaxTrace,
         operations |->
            {DelayFuture, Close}
            \cup {Reset(c, v) : c \in names, v \in 0 .. MaxVal}
            \cup {Constraint(c[1], c[2], rel, v) :
                    c \in {d \in (names \cup {None}) \X (names \cup {None}) : d[1] # d[2]},
                    rel \in {"<", "<="}, v \in (0 - MaxVal) .. MaxVal}]

\* a system with an edge guarded by the diagonal constraint
\* first - last <= -MaxVal, which resets the first clock to MaxVal and every
\* other clock to 0
GuardedSystem(n) ==
    LET names == {AllClockNames[k] : k \in 2 .. n}
        first == AllClockNames[2]
        last == AllClockNames[n]
    IN  [clock_count |-> n, trace_limit |-> MaxTrace + 2,
         operations |->
            {DelayFuture, Close, Reset(first, MaxVal), Constraint(first, last, "<=", 0 - MaxVal)}
            \cup {Reset(c, 0) : c \in names \ {first}}]

\* a system of resets, upper and lower bounds and a diagonal guard
UpdateSystem(n) ==
    LET names == {AllClockNames[k] : k \in 2 .. n}
    IN  [clock_count |-> n, trace_limit |-> MaxTrace,
         operations |->
            {DelayFuture, Close, Constraint(AllClockNames[2], AllClockNames[n], "<", 0)}
            \cup {Reset(c, v) : c \in names, v \in {0, MaxVal}}
            \cup {Constraint(c, None, "<=", MaxVal) : c \in names}
            \cup {Constraint(None, c, "<=", 0 - 1) : c \in names}]

Observable(operation) == ~ZoneIsEmpty(OperationApply(operation, dbm))

(***************************************************************************)
(* DBMReconstructorRinast                                                  *)
(***************************************************************************)
\* TASystem(...) as a value: a fresh DBMSystem with an initialized
\* GraphReductor
TASystem ==
    [currentEvaluation |-> create_evaluation, invalidated |-> TRUE, transCount |-> 0,
     evaluations |-> [e \in {create_evaluation} |-> {}],
     projections |-> [q \in {} |-> Edge(UpT, create_evaluation)],
     initialNode |-> create_evaluation, currentNode |-> create_evaluation, dijkstra |-> <<>>,
     eliminations |-> 0]

\* self.ta_system: the system of the constructor
ta_system ==
    [currentEvaluation |-> currentEvaluation, invalidated |-> invalidated,
     transCount |-> transCount, evaluations |-> evaluations, projections |-> projections,
     initialNode |-> initialNode, currentNode |-> currentNode, dijkstra |-> dijkstra,
     eliminations |-> eliminations]

\* TransformationSystem.apply_transformation on a system given as a value
SystemApplyTransformation(ta, transformation) ==
    LET result == apply(transformation, ta.currentEvaluation)
    IN  [ta EXCEPT
            !.evaluations = GraphApplyEvaluations(ta.evaluations, ta.projections, ta.currentNode,
                                ta.currentEvaluation, transformation, result),
            !.projections = GraphApplyProjections(ta.projections, ta.currentEvaluation,
                                transformation, result),
            !.currentNode = result,
            !.currentEvaluation = result,
            !.transCount = ta.transCount + 1,
            !.invalidated = TRUE,
            !.eliminations = 0]

\* _append_sequence_to_ta_system: the system after the operations of a
\* sequence (a Close applies nothing)
RECURSIVE append_sequence_to_ta_system(_, _)
append_sequence_to_ta_system(ta, seq) ==
    IF seq = <<>> THEN ta
    ELSE LET next == IF Head(seq).op = "Close" THEN ta
                     ELSE SystemApplyTransformation(ta, TransformationOf(Head(seq)))
         IN  IF next.transCount < 0 THEN next
             ELSE append_sequence_to_ta_system(next, Tail(seq))

ReducedPaths_Eager(ta) ==
    {[path |-> path, eliminations |-> ta.eliminations + 1]
        : path \in ShortestPaths(ta.evaluations, ta.initialNode, ta.currentNode)}

\* TransformationSystem.get_reduced_path on a system given as a value: the
\* paths it can return, with the calls of eliminate() counted (eliminate()
\* only when invalidated)
ReducedPaths(ta) ==
    IF ta.invalidated
    THEN {[path |-> path, eliminations |-> ta.eliminations + 1]
            : path \in ShortestPaths(ta.evaluations, ta.initialNode, ta.currentNode)}
    ELSE {[path |-> ta.dijkstra[1].path, eliminations |-> ta.eliminations]}

\* _generate_sequence_from_ta_system_path for the system the constructor has
\* come to: get_reduced_path and the rendering of the path
GenerateSequenceFromTASystemPath(ta) ==
    \E reduced \in ReducedPaths(ta) :
        /\ returned' = generate_sequence_from_path(reduced.path)
        /\ eliminations' = reduced.eliminations
        /\ currentEvaluation' = ta.currentEvaluation
        /\ invalidated' = FALSE
        /\ transCount' = ta.transCount
        /\ evaluations' = ta.evaluations
        /\ projections' = ta.projections
        /\ initialNode' = ta.initialNode
        /\ currentNode' = ta.currentNode
        /\ dijkstra' = IF ta.invalidated
                       THEN <<[target |-> ta.currentNode, path |-> reduced.path]>>
                       ELSE ta.dijkstra

\* TASystem(...): a fresh DBMSystem with an initialized GraphReductor
FreshTASystem ==
    /\ currentEvaluation' = create_evaluation
    /\ invalidated' = TRUE
    /\ transCount' = 0
    /\ evaluations' = [e \in {create_evaluation} |-> {}]
    /\ projections' = [q \in {} |-> Edge(UpT, create_evaluation)]
    /\ initialNode' = create_evaluation
    /\ currentNode' = create_evaluation
    /\ dijkstra' = <<>>
    /\ eliminations' = 0

\* TransformationSystem(variable_count, DBValue, CounterReductor()) followed
\* by set_initial_evaluation(create_evaluation())
FreshCounterSystem ==
    /\ crReductor' = CounterInitialize(CounterReductor)
    /\ crCurrentEvaluation' = create_evaluation
    /\ crTransCount' = 0
    /\ crRaised' = ""
    /\ crPath' = <<>>

\* the zone in which every clock is at least 0 and nothing else is known
UnconstrainedZone ==
    [p \in Pairs |-> IF p[1] = p[2] \/ p[1] = 0 THEN DBMEntry(0, "<=") ELSE DBMEntry(inf, "<")]

\* data_for_rec["dbm_init"] when it is None
NoZone == <<>>

\* the generators after __init__, each cleared; the dbm_source of the RCS
\* constrainer is None
ClearedGenerators ==
    [SEQ |-> <<>>, DBM |-> <<>>, FCS |-> <<>>, MCS |-> <<>>, RCS |-> <<>>, dbm_source |-> NoZone]

\* the sequence lengths among the measures of a call
NoMeasures == [seq_approx_length |-> 0, seq_constr_length |-> 0, seq_full_length |-> 0]

\* the value of oc before any call on the OC constructor
NoCall ==
    [call |-> "none", approximation_strategy |-> None, constraint_strategy |-> None,
     data |-> [dbm_init |-> ZeroZone, seq_full |-> <<>>, seq_incr |-> <<>>, dbm_target |-> ZeroZone],
     seq_approx |-> <<>>, dbm_approx |-> ZeroZone, seq_constr |-> <<>>, dbm_constr |-> ZeroZone,
     seq_rec |-> <<>>, dbm_rec |-> ZeroZone, measures |-> NoMeasures, raised |-> ""]

\* DBMReconstructorOC(dbm_init): its DBMApproximatorViaSeq gets dbm_init.clocks[1:]
InitOC ==
    /\ dbm_init = ZeroZone
    /\ apx_clocks = Tail(clock_names)
    /\ oc = NoCall
    /\ steps = 0
    /\ on_the_fly = FALSE
    /\ generators = ClearedGenerators

\* a location of a template: original locations are named by their id
Location(name, index) == [name |-> name, index |-> index]

\* the active location of a process of a system that is not simulated
NoLocation == Location("none", 0)

\* the original templates: one instance each (convert_instances_to_templates),
\* two locations, the second with an invariant, and edges both ways
OriginalNames == {"P1", "P2"}

OriginalLocations == {Location("id", 0), Location("id", 1)}

\* an edge of a template: its clock guards and its resets are lists, in the
\* order of new_clock_guard and new_reset
UppaalEdge(source, target, sync, guards) ==
    [source |-> source, target |-> target, sync |-> sync, guards |-> guards, resets |-> <<>>]

OriginalTemplate ==
    [init |-> Location("id", 0),
     locations |-> OriginalLocations,
     committed |-> {},
     invariants |-> [l \in OriginalLocations |-> IF l.index = 1 THEN <<"x <= 1">> ELSE <<>>],
     edges |-> {UppaalEdge(a, b, "", <<>>) : a \in OriginalLocations, b \in OriginalLocations} ]

OriginalSystem ==
    [templates |-> [n \in OriginalNames |-> OriginalTemplate],
     channels |-> {},
     processes |-> [n \in OriginalNames |-> n] ]

dbm_init_tmpl_name == "SYNC_DBM_Init"

dbm_init_inst_name == "SYNC_Init"

ProcessNames == OriginalNames \cup {dbm_init_inst_name}

\* the value of search before any GraphReductor.eliminate
NoSearch ==
    [phase |-> "none", distances |-> <<>>, predecessors |-> <<>>, transformations |-> <<>>,
     queue |-> {}, target |-> <<>>]

\* the value of walk before any call of get_all_pos_prefix_path; a call that
\* returns None leaves the empty tuple as its result
NoPath == <<>>

NoWalk == [called |-> FALSE, graph |-> <<>>, start |-> 0, result |-> NoPath]

\* the value of value_call before any call of a DBValue method
NoValueCall == [method |-> "none", self |-> 0, other |-> 0, ret |-> 0]

\* the value of applied before any Transformation.apply
NoApplication == [called |-> FALSE, transformation |-> UpT, evaluation |-> <<>>, result |-> <<>>]

\* the value of last_call before any such call
NoReconstruction ==
    [call |-> "none", missing |-> FALSE, raised |-> "", count |-> 0, replayed |-> 0]

\* the Rinast constructor before its first generate_sequence, and the
\* Trivial constructor after __init__
InitConstructor ==
    /\ search = NoSearch
    /\ walk = NoWalk
    /\ nta = OriginalSystem
    /\ construction_seq = <<>>
    /\ location_state = [p \in ProcessNames |-> NoLocation]
    /\ passed = create_evaluation
    /\ applied = NoApplication
    /\ cells = <<>>
    /\ value_call = NoValueCall
    /\ evaluation_objects = <<>>
    /\ held = <<>>
    /\ nodes = <<>>
    /\ system_current = [evaluation |-> 0, transCount |-> 0]
    /\ trivial_seq_rec = <<>>
    /\ last_call = NoReconstruction
    /\ pc = "idle"
    /\ seq_full = <<>>
    /\ returned = <<>>
    /\ currentEvaluation = create_evaluation
    /\ invalidated = TRUE
    /\ transCount = 0
    /\ evaluations = [e \in {create_evaluation} |-> {}]
    /\ projections = [q \in {} |-> Edge(UpT, create_evaluation)]
    /\ initialNode = create_evaluation
    /\ currentNode = create_evaluation
    /\ dijkstra = <<>>
    /\ eliminations = 0
    /\ crReductor = CounterInitialize(CounterReductor)
    /\ crCurrentEvaluation = create_evaluation
    /\ crTransCount = 0
    /\ crRaised = ""
    /\ crPath = <<>>

InitRinast(observed) ==
    /\ system = observed
    /\ dbm = ZeroZone
    /\ InitConstructor
    /\ InitOC

\* generate_sequence, entry: a new TASystem for the trace data["seq_full"]
generate_sequence_begin ==
    /\ pc = "idle"
    /\ pc' = "gen"
    /\ seq_full' = <<>>
    /\ returned' = <<>>
    /\ dbm' = ZeroZone
    /\ FreshTASystem
    /\ FreshCounterSystem
    /\ UNCHANGED <<ocVars, entryVars, pureVars, system>>

\* _append_sequence_to_ta_system, one iteration for a Reset, Constraint or
\* DelayFuture of the trace
append_operation ==
    /\ pc = "gen"
    /\ Len(seq_full) < trace_limit
    /\ \E operation \in operations \ {Close} :
          /\ Observable(operation)
          /\ seq_full' = Append(seq_full, operation)
          /\ dbm' = OperationApply(operation, dbm)
          /\ apply_transformation(TransformationOf(operation))
    /\ UNCHANGED <<ocVars, entryVars, pureVars, system, pc, returned, counterVars>>

\* _append_sequence_to_ta_system, one iteration for a Close of the trace
append_close ==
    /\ pc = "gen"
    /\ Len(seq_full) < trace_limit
    /\ Close \in operations
    /\ seq_full' = Append(seq_full, Close)
    /\ dbm' = OperationApply(Close, dbm)
    /\ UNCHANGED <<ocVars, entryVars, pureVars, system, pc, returned, currentEvaluation, invalidated, transCount,
                   evaluations, projections, initialNode, currentNode, dijkstra,
                   eliminations, counterVars>>

\* generate_sequence, exit: _generate_sequence_from_ta_system_path, with
\* TransformationSystem.get_reduced_path (eliminate() when invalidated)
generate_sequence_end ==
    /\ pc = "gen"
    /\ pc' = "idle"
    /\ IF invalidated
       THEN \E path \in ShortestPaths(evaluations, initialNode, currentNode) :
               /\ dijkstra' = <<[target |-> currentNode, path |-> path]>>
               /\ returned' = generate_sequence_from_path(path)
       ELSE /\ dijkstra' = dijkstra
            /\ returned' = generate_sequence_from_path(dijkstra[1].path)
    /\ invalidated' = FALSE
    /\ eliminations' = IF invalidated THEN eliminations + 1 ELSE eliminations
    /\ UNCHANGED <<ocVars, entryVars, pureVars, system, seq_full, dbm, currentEvaluation, transCount,
                   evaluations, projections, initialNode, currentNode, counterVars>>

\* the transformations _append_sequence_to_ta_system applies for a trace
RECURSIVE TraceTransformations(_)
TraceTransformations(seq) ==
    IF seq = <<>> THEN <<>>
    ELSE IF Head(seq).op = "Close" THEN TraceTransformations(Tail(seq))
    ELSE <<TransformationOf(Head(seq))>> \o TraceTransformations(Tail(seq))

\* TransformationSystem.apply_transformation with the CounterReductor, for
\* the next transformation of the trace; an exception of the reductor leaves
\* currentEvaluation and transCount as they were and ends the recording
counter_apply_transformation ==
    /\ pc = "idle"
    /\ crRaised = ""
    /\ crPath = <<>>
    /\ crTransCount < Len(TraceTransformations(seq_full))
    /\ LET transformation == TraceTransformations(seq_full)[crTransCount + 1]
           result == apply(transformation, crCurrentEvaluation)
           outcome == CounterApply(crReductor, transformation)
       IN  /\ crReductor' = outcome.reductor
           /\ crRaised' = outcome.raised
           /\ crCurrentEvaluation' = IF outcome.raised = "" THEN result ELSE crCurrentEvaluation
           /\ crTransCount' = IF outcome.raised = "" THEN crTransCount + 1 ELSE crTransCount
    /\ UNCHANGED <<ocVars, entryVars, pureVars, system, pc, seq_full, returned, dbm, currentEvaluation, invalidated,
                   transCount, evaluations, projections, initialNode, currentNode, dijkstra,
                   eliminations, crPath>>

\* TransformationSystem.get_reduced_path with the CounterReductor, once the
\* whole trace is recorded: eliminate(), then get_path()
counter_get_reduced_path ==
    /\ pc = "idle"
    /\ crRaised = ""
    /\ crPath = <<>>
    /\ crTransCount = Len(TraceTransformations(seq_full))
    /\ LET outcome == CounterEliminate(crReductor)
       IN  /\ crReductor' = outcome.reductor
           /\ crRaised' = outcome.raised
           /\ crPath' = IF outcome.raised = "" THEN <<CounterGetPath(outcome.reductor)>> ELSE <<>>
    /\ UNCHANGED <<ocVars, entryVars, pureVars, system, pc, seq_full, returned, dbm, currentEvaluation, invalidated,
                   transCount, evaluations, projections, initialNode, currentNode, dijkstra,
                   eliminations, crCurrentEvaluation, crTransCount>>

Next ==
    \/ generate_sequence_begin
    \/ append_operation
    \/ append_close
    \/ generate_sequence_end
    \/ counter_apply_transformation
    \/ counter_get_reduced_path

Init == InitRinast(BroadSystem(ClockCount))

Spec == Init /\ [][Next]_vars

\* the same constructor observing a system with one more clock and a
\* diagonal guard, over longer traces
InitGuarded == InitRinast(GuardedSystem(ClockCount + 1))

SpecGuarded == InitGuarded /\ [][Next]_vars

(***************************************************************************)
(* oc/dbm_constructor_oc.py: DBMReconstructorOC, on_the_fly off            *)
(***************************************************************************)
\* a system whose traces are built from the resets, the bounds of single
\* clocks and the orderings of two clocks
OCSystem(n) ==
    LET names == {AllClockNames[k] : k \in 2 .. n}
    IN  [clock_count |-> n, trace_limit |-> MaxTrace,
         operations |->
            {DelayFuture, Close}
            \cup {Reset(c, v) : c \in names, v \in 0 .. MaxVal}
            \cup {Constraint(c, None, "<=", MaxVal) : c \in names}
            \cup {Constraint(None, c, "<=", 0 - MaxVal) : c \in names}
            \cup {Constraint(c[1], c[2], "<", 0) : c \in {d \in names \X names : d[1] # d[2]}}]

\* one more operation of the observed trace
observe ==
    /\ oc.call = "none"
    /\ Len(seq_full) < trace_limit
    /\ \E operation \in operations :
          /\ Observable(operation)
          /\ seq_full' = Append(seq_full, operation)
          /\ dbm' = OperationApply(operation, dbm)
    /\ UNCHANGED <<ocVars, entryVars, pureVars, system, pc, returned, currentEvaluation, invalidated, transCount,
                   evaluations, projections, initialNode, currentNode, dijkstra,
                   eliminations, counterVars>>

\* data_for_rec: the initial zone, the observed trace and the zone it led to
data_for_rec ==
    [dbm_init |-> dbm_init, seq_full |-> seq_full, seq_incr |-> <<>>, dbm_target |-> ZoneClose(dbm)]

\* the lists np.random.permutation can return for the classes of a target
Shuffles(dbm_target) ==
    LET drawn == RandomPermutations(get_zero_equivalence_classes(dbm_target))
    IN  {f \in [DOMAIN drawn -> UNION {drawn[i] : i \in DOMAIN drawn}] :
            \A i \in DOMAIN drawn : f[i] \in drawn[i]}

\* approximator.generate_sequence(data): the sequences it can return, the
\* empty set when it raises
ApproximationSequences(strategy, data) ==
    IF strategy = "SEQ"
    THEN {generate_approximation_sequence_via_seq(data.seq_full, apx_clocks)}
    ELSE generate_approximation_sequence_via_dbm_target(data.dbm_target)

\* constrainer.generate_sequence(data), with constrainer.dbm_source set to
\* data["dbm_init"] for RCS
ConstraintSequences(strategy, data) ==
    CASE strategy = "FCS" -> {generate_constraint_sequence_via_fcs(data.dbm_target)}
      [] strategy = "MCS" -> {generate_constraint_sequence_via_mcs(data.dbm_target)}
      [] strategy = "RCS" ->
            {generate_constraint_sequence_via_rcs(data.dbm_init, data.dbm_target, shuffled)
                : shuffled \in Shuffles(data.dbm_target)}

\* approximator.update_sequence(data) or approximator.generate_sequence(data):
\* the sequences returned with the generators left behind, and what was raised
ApproximatorResults(strategy, data, stored) ==
    IF on_the_fly
    THEN IF strategy = "SEQ"
         THEN LET seq_approx ==
                      update_approximation_sequence_via_seq(stored.SEQ, data.seq_incr, apx_clocks)
              IN  {[seq_approx |-> seq_approx, generators |-> [stored EXCEPT !.SEQ = seq_approx],
                    raised |-> ""]}
         ELSE {[seq_approx |-> <<>>, generators |-> stored, raised |-> "Exception"]}
    ELSE IF ApproximationSequences(strategy, data) = {}
         THEN {[seq_approx |-> <<>>, generators |-> stored, raised |-> "TypeError"]}
         ELSE {[seq_approx |-> seq_approx, generators |-> [stored EXCEPT ![strategy] = seq_approx],
                raised |-> ""] : seq_approx \in ApproximationSequences(strategy, data)}

\* what time_measured_approximation can return for the data
ApproximationResults(strategy, data, stored) ==
    IF data.dbm_init = NoZone
    THEN {[seq_approx |-> <<>>, dbm_approx |-> NoZone, measures |-> NoMeasures,
           generators |-> stored, raised |-> "Exception"]}
    ELSE {IF got.raised # ""
          THEN [seq_approx |-> <<>>, dbm_approx |-> NoZone, measures |-> NoMeasures,
                generators |-> got.generators, raised |-> got.raised]
          ELSE [seq_approx |-> got.seq_approx,
                dbm_approx |-> SequenceApply(got.seq_approx, data.dbm_init),
                measures |-> [NoMeasures EXCEPT !.seq_approx_length = Len(got.seq_approx),
                                                !.seq_full_length = Len(got.seq_approx)],
                generators |-> got.generators, raised |-> ""]
            : got \in ApproximatorResults(strategy, data, stored)}

ConstrainerResults_FallingBack(strategy, data, stored) ==
    {[seq_constr |-> seq_constr, generators |-> [stored EXCEPT ![strategy] = seq_constr],
      raised |-> ""] : seq_constr \in ConstraintSequences(strategy, data)}

\* constrainer.update_sequence(data) or constrainer.generate_sequence(data),
\* the constrainer being one whose dbm_source is set where it has one
ConstrainerResults(strategy, data, stored) ==
    IF on_the_fly
    THEN {[seq_constr |-> <<>>, generators |-> stored, raised |-> "Exception"]}
    ELSE {[seq_constr |-> seq_constr, generators |-> [stored EXCEPT ![strategy] = seq_constr],
           raised |-> ""] : seq_constr \in ConstraintSequences(strategy, data)}

\* what time_measured_constraint can return for the data
ConstraintResults(strategy, data, stored) ==
    IF data.dbm_init = NoZone
    THEN {[seq_constr |-> <<>>, dbm_constr |-> NoZone, measures |-> NoMeasures,
           generators |-> stored, raised |-> "Exception"]}
    ELSE LET with_source == IF strategy = "RCS"
                            THEN [stored EXCEPT !.dbm_source = data.dbm_init]
                            ELSE stored
         IN  {IF got.raised # ""
              THEN [seq_constr |-> <<>>, dbm_constr |-> NoZone, measures |-> NoMeasures,
                    generators |-> got.generators, raised |-> got.raised]
              ELSE [seq_constr |-> got.seq_constr,
                    dbm_constr |-> SequenceApply(got.seq_constr, data.dbm_init),
                    measures |-> [NoMeasures EXCEPT !.seq_constr_length = Len(got.seq_constr),
                                                    !.seq_full_length = Len(got.seq_constr)],
                    generators |-> got.generators, raised |-> ""]
                : got \in ConstrainerResults(strategy, data, with_source)}

calculate_full_measures_WithoutConstraint(approx_measures, constr_measures) ==
    [NoMeasures EXCEPT !.seq_full_length = approx_measures.seq_approx_length]

\* the measure that calculate_full_measures takes from the lengths (its
\* other measures are times)
calculate_full_measures(approx_measures, constr_measures) ==
    [NoMeasures EXCEPT
        !.seq_full_length = approx_measures.seq_approx_length + constr_measures.seq_constr_length]

\* set_strategies(approximation) and time_measured_approximation(data)
TimeMeasuredApproximation(strategies, data) ==
    /\ oc.call = "none"
    /\ \E approximation \in strategies :
          \E approx_data \in ApproximationResults(approximation, data, generators) :
             /\ oc' = [NoCall EXCEPT !.call = "time_measured_approximation",
                                     !.approximation_strategy = approximation,
                                     !.data = data,
                                     !.seq_approx = approx_data.seq_approx,
                                     !.dbm_approx = approx_data.dbm_approx,
                                     !.measures = approx_data.measures,
                                     !.raised = approx_data.raised]
             /\ generators' = approx_data.generators
    /\ UNCHANGED <<rinastVars, entryVars, pureVars, dbm_init, apx_clocks, steps, on_the_fly>>

\* set_strategies(constraint) and time_measured_constraint(data)
TimeMeasuredConstraint(data) ==
    /\ oc.call = "none"
    /\ \E constraint \in {"FCS", "MCS", "RCS"} :
          \E constr_data \in ConstraintResults(constraint, data, generators) :
             /\ oc' = [NoCall EXCEPT !.call = "time_measured_constraint",
                                     !.constraint_strategy = constraint,
                                     !.data = data,
                                     !.seq_constr = constr_data.seq_constr,
                                     !.dbm_constr = constr_data.dbm_constr,
                                     !.measures = constr_data.measures,
                                     !.raised = constr_data.raised]
             /\ generators' = constr_data.generators
    /\ UNCHANGED <<rinastVars, entryVars, pureVars, dbm_init, apx_clocks, steps, on_the_fly>>

\* set_strategies(approximation, constraint) and
\* time_measured_reconstruction(data): the constraint phase gets the
\* approximated zone as its dbm_init
TimeMeasuredReconstruction(data) ==
    /\ oc.call = "none"
    /\ \E approximation \in {"SEQ", "DBM"}, constraint \in {"FCS", "MCS", "RCS"} :
          LET called == [NoCall EXCEPT !.call = "time_measured_reconstruction",
                                       !.approximation_strategy = approximation,
                                       !.constraint_strategy = constraint,
                                       !.data = data]
          IN  IF data.dbm_init = NoZone
              THEN oc' = [called EXCEPT !.raised = "Exception"] /\ generators' = generators
              ELSE \E approx_data \in ApproximationResults(approximation, data, generators) :
                     LET data_for_rec_constr == [data EXCEPT !.dbm_init = approx_data.dbm_approx]
                         approximated == [called EXCEPT !.seq_approx = approx_data.seq_approx,
                                                        !.dbm_approx = approx_data.dbm_approx,
                                                        !.raised = approx_data.raised]
                     IN  IF approx_data.raised # ""
                         THEN oc' = approximated /\ generators' = approx_data.generators
                         ELSE \E constr_data \in ConstraintResults(constraint, data_for_rec_constr,
                                                                   approx_data.generators) :
                                 /\ generators' = constr_data.generators
                                 /\ oc' = IF constr_data.raised # ""
                                          THEN [approximated EXCEPT !.raised = constr_data.raised]
                                          ELSE [approximated EXCEPT
                                                   !.seq_constr = constr_data.seq_constr,
                                                   !.dbm_constr = constr_data.dbm_constr,
                                                   !.seq_rec = approx_data.seq_approx
                                                                  \o constr_data.seq_constr,
                                                   !.dbm_rec = constr_data.dbm_constr,
                                                   !.measures = calculate_full_measures(
                                                       approx_data.measures, constr_data.measures)]
    /\ UNCHANGED <<rinastVars, entryVars, pureVars, dbm_init, apx_clocks, steps, on_the_fly>>

\* the calls for the observed trace
time_measured_approximation == TimeMeasuredApproximation({"SEQ", "DBM"}, data_for_rec)

time_measured_reconstruction == TimeMeasuredReconstruction(data_for_rec)

NextOC ==
    \/ observe
    \/ time_measured_approximation
    \/ time_measured_reconstruction

\* the OC constructor for a trace of the system from the all-zero or from the
\* unconstrained zone
InitTrace ==
    /\ system = OCSystem(ClockCount)
    /\ dbm_init \in {ZeroZone, UnconstrainedZone}
    /\ dbm = dbm_init
    /\ apx_clocks = Tail(clock_names)
    /\ oc = NoCall
    /\ steps = 0
    /\ on_the_fly = FALSE
    /\ generators = ClearedGenerators
    /\ InitConstructor

SpecOC == InitTrace /\ [][NextOC]_vars

(***************************************************************************)
(* DBMApproximatorViaSeq on its own, constructed with any list of clocks   *)
(***************************************************************************)
\* a system whose traces are built from the resets and the upper bounds of
\* single clocks, over longer traces
ResetSystem(n) ==
    LET names == {AllClockNames[k] : k \in 2 .. n}
    IN  [clock_count |-> n, trace_limit |-> MaxTrace + 1,
         operations |->
            {DelayFuture, Close}
            \cup {Reset(c, v) : c \in names, v \in 0 .. MaxVal}
            \cup {Constraint(c, None, "<=", MaxVal) : c \in names}]

\* the lists of distinct clocks of the system
ClockLists ==
    LET lists == UNION {[1 .. k -> ClockNameSet] : k \in 0 .. (clock_count - 1)}
    IN  {list \in lists : \A a, b \in DOMAIN list : list[a] = list[b] => a = b}

\* DBMApproximatorViaSeq.generate_sequence(data), on_the_fly off
approximator_generate_sequence ==
    /\ oc.call = "none"
    /\ oc' = [NoCall EXCEPT !.call = "generate_sequence",
                            !.approximation_strategy = "SEQ",
                            !.data = data_for_rec,
                            !.seq_approx =
                                generate_approximation_sequence_via_seq(seq_full, apx_clocks)]
    /\ generators' = [generators EXCEPT
                         !.SEQ = generate_approximation_sequence_via_seq(seq_full, apx_clocks)]
    /\ UNCHANGED <<rinastVars, entryVars, pureVars, dbm_init, apx_clocks, steps, on_the_fly>>

\* DBMApproximatorViaSeq.update_sequence(data), the increment being the
\* operations observed since the last update
approximator_update_sequence ==
    /\ oc.call = "none"
    /\ LET data == [data_for_rec EXCEPT !.seq_incr = SubSeq(seq_full, steps + 1, Len(seq_full))]
       IN  generators' = [generators EXCEPT
                             !.SEQ = update_approximation_sequence_via_seq(
                                         generators.SEQ, data.seq_incr, apx_clocks)]
    /\ steps' = Len(seq_full)
    /\ UNCHANGED <<rinastVars, entryVars, pureVars, dbm_init, apx_clocks, oc, on_the_fly>>

NextApprox ==
    \/ observe
    \/ approximator_generate_sequence
    \/ approximator_update_sequence

InitApprox ==
    /\ system = ResetSystem(ClockCount)
    /\ dbm_init = ZeroZone
    /\ dbm = ZeroZone
    /\ apx_clocks \in ClockLists
    /\ oc = NoCall
    /\ steps = 0
    /\ on_the_fly = FALSE
    /\ generators = ClearedGenerators
    /\ InitConstructor

SpecApprox == InitApprox /\ [][NextApprox]_vars

(***************************************************************************)
(* The OC constructor given a target zone and an initial zone, no trace    *)
(***************************************************************************)
\* the target of the 3-node scenario: x in [2,3], y in [1,1], x - y in [0,2]
ScenarioTarget ==
    ZoneClose([p \in Pairs |->
        CASE p = <<1, 0>> -> DBMEntry(3, "<=")
          [] p = <<0, 1>> -> DBMEntry(0 - 2, "<=")
          [] p = <<2, 0>> -> DBMEntry(1, "<=")
          [] p = <<0, 2>> -> DBMEntry(0 - 1, "<=")
          [] p = <<1, 2>> -> DBMEntry(2, "<=")
          [] p = <<2, 1>> -> DBMEntry(0, "<=")
          [] OTHER -> UnconstrainedZone[p]])

\* the zone with all constraints on one clock dropped
ZoneFree(Z, c) ==
    Stored([p \in Pairs |->
        IF p[1] = c /\ p[2] # c THEN DBMEntry(inf, "<")
        ELSE IF p[2] = c /\ p[1] # c THEN Z[<<p[1], 0>>]
        ELSE Z[p]])

\* the zone with one entry dropped (not canonical in general)
ZoneRelax(Z, q) == [Z EXCEPT ![q] = DBMEntry(inf, "<")]

\* initial zones that contain a target zone
SourceZones(dbm_target) ==
    {UnconstrainedZone, dbm_target, ZoneDelayFuture(dbm_target)}
        \cup {ZoneFree(dbm_target, c) : c \in ClockIdx \ {0}}
        \cup {ZoneRelax(dbm_target, q) : q \in {r \in Pairs : r[1] # r[2] /\ r[1] # 0}}

\* one more operation of the observed system, of which only the zone is kept
evolve ==
    /\ oc.call = "none"
    /\ steps < trace_limit
    /\ steps' = steps + 1
    /\ \E operation \in operations :
          /\ Observable(operation)
          /\ dbm' = ZoneClose(OperationApply(operation, dbm))
    /\ UNCHANGED <<system, pc, seq_full, returned, currentEvaluation, invalidated, transCount,
                   evaluations, projections, initialNode, currentNode, dijkstra, eliminations,
                   counterVars,
                   dbm_init, apx_clocks, oc, on_the_fly, generators, entryVars, pureVars>>

\* the zone-based approximation for the observed zone, from the all-zero zone
approximate_target == TimeMeasuredApproximation({"DBM"}, data_for_rec)

\* a constraint phase for the observed zone, from an initial zone that
\* contains it
ConstrainToTarget(zones) ==
    \E Z \in zones : TimeMeasuredConstraint([data_for_rec EXCEPT !.dbm_init = Z])

constrain_to_target == ConstrainToTarget(SourceZones(ZoneClose(dbm)))

NextZone ==
    \/ evolve
    \/ approximate_target
    \/ constrain_to_target

\* the zones of the system from the all-zero zone, from the unconstrained
\* zone and from the target of the scenario
InitZone ==
    /\ system = BroadSystem(ClockCount)
    /\ dbm \in {ZeroZone, UnconstrainedZone, ScenarioTarget}
    /\ dbm_init = ZeroZone
    /\ apx_clocks = Tail(clock_names)
    /\ oc = NoCall
    /\ steps = 0
    /\ on_the_fly = FALSE
    /\ generators = ClearedGenerators
    /\ InitConstructor

SpecZone == InitZone /\ [][NextZone]_vars

(***************************************************************************)
(* The constraint phase for systems with classes of up to six clocks       *)
(***************************************************************************)
\* a system of which all clocks start equal, with a delay and two resets
ManyClockSystem(n) ==
    [clock_count |-> n, trace_limit |-> MaxTrace - 2,
     operations |-> {DelayFuture, Reset(AllClockNames[2], 0), Reset(AllClockNames[3], MaxVal)}]

\* a constraint phase from a zone that lacks the bounds of the first clock or
\* one bound between the second and the third
constrain_to_target_of_many ==
    ConstrainToTarget({UnconstrainedZone, ZoneFree(ZoneClose(dbm), 1),
                       ZoneRelax(ZoneClose(dbm), <<2, 3>>)})

NextMany ==
    \/ evolve
    \/ constrain_to_target_of_many

InitMany ==
    /\ system = ManyClockSystem(ClockCount + 3)
    /\ dbm = ZeroZone
    /\ InitOC
    /\ InitConstructor

SpecMany == InitMany /\ [][NextMany]_vars

(***************************************************************************)
(* generate_sequence, update_sequence and clear of the Rinast constructor  *)
(* for a trace that grows between the calls                                *)
(***************************************************************************)
\* the operations of the trace not yet replayed
seq_incr == SubSeq(seq_full, steps + 1, Len(seq_full))

\* generate_sequence(data): a new TASystem replays data["seq_full"]
rinast_generate_sequence ==
    /\ GenerateSequenceFromTASystemPath(append_sequence_to_ta_system(TASystem, seq_full))
    /\ steps' = Len(seq_full)
    /\ last_call' = [NoReconstruction EXCEPT !.call = "generate_sequence", !.replayed = steps]
    /\ UNCHANGED <<system, pc, seq_full, dbm, counterVars, dbm_init, apx_clocks, oc, on_the_fly,
                   generators, trivial_seq_rec, pureVars>>

rinast_update_sequence_OnNewSystem ==
    /\ GenerateSequenceFromTASystemPath(append_sequence_to_ta_system(TASystem, seq_incr))
    /\ steps' = Len(seq_full)
    /\ last_call' = [NoReconstruction EXCEPT !.call = "update_sequence", !.replayed = steps]
    /\ UNCHANGED <<system, pc, seq_full, dbm, counterVars, dbm_init, apx_clocks, oc, on_the_fly,
                   generators, trivial_seq_rec, pureVars>>

\* update_sequence(data): the system replays data["seq_incr"] on top of what
\* it has replayed
rinast_update_sequence ==
    /\ GenerateSequenceFromTASystemPath(append_sequence_to_ta_system(ta_system, seq_incr))
    /\ steps' = Len(seq_full)
    /\ last_call' = [NoReconstruction EXCEPT !.call = "update_sequence", !.replayed = steps]
    /\ UNCHANGED <<system, pc, seq_full, dbm, counterVars, dbm_init, apx_clocks, oc, on_the_fly,
                   generators, trivial_seq_rec, pureVars>>

\* clear(): a new TASystem and an empty sequence
rinast_clear ==
    /\ FreshTASystem
    /\ returned' = <<>>
    /\ steps' = 0
    /\ last_call' = [NoReconstruction EXCEPT !.call = "clear", !.replayed = steps]
    /\ UNCHANGED <<system, pc, seq_full, dbm, counterVars, dbm_init, apx_clocks, oc, on_the_fly,
                   generators, trivial_seq_rec, pureVars>>

NextUpdate ==
    \/ observe
    \/ rinast_generate_sequence
    \/ rinast_update_sequence
    \/ rinast_clear

InitUpdate == InitRinast(UpdateSystem(ClockCount))

SpecUpdate == InitUpdate /\ [][NextUpdate]_vars

(***************************************************************************)
(* The OC constructor with on_the_fly on or off, with or without a source  *)
(* zone, and its generators called on their own                            *)
(***************************************************************************)
\* a system of two resets, a delay and an upper bound, over short traces
FlySystem(n) ==
    [clock_count |-> n, trace_limit |-> MaxTrace - 2,
     operations |-> {DelayFuture, Reset(AllClockNames[2], 0), Reset(AllClockNames[n], MaxVal),
                     Constraint(AllClockNames[2], None, "<=", MaxVal)}]

\* data["seq_incr"]: the last operations of the observed trace
Increments == {SubSeq(seq_full, k, Len(seq_full)) : k \in 1 .. (Len(seq_full) + 1)}

\* generate_sequence(data) of one generator, called on it directly (the RCS
\* constrainer with its dbm_source set to the initial zone first)
generator_generate_sequence ==
    /\ oc.call = "none"
    /\ steps < MaxTrace - 1
    /\ steps' = steps + 1
    /\ \E strategy \in {"SEQ", "DBM", "FCS", "MCS", "RCS"} :
          \E seq \in
                IF strategy \in {"SEQ", "DBM"} THEN ApproximationSequences(strategy, data_for_rec)
                ELSE ConstraintSequences(strategy, data_for_rec) :
             generators' = [generators EXCEPT
                               ![strategy] = seq,
                               !.dbm_source = IF strategy = "RCS" THEN dbm_init ELSE @]
    /\ UNCHANGED <<rinastVars, entryVars, pureVars, dbm_init, apx_clocks, oc, on_the_fly>>

\* the data of a call: the observed trace and zone, an increment, and the
\* initial zone or none
DataOfIncrement ==
    {[data_for_rec EXCEPT !.dbm_init = source, !.seq_incr = increment]
        : source \in {dbm_init, NoZone}, increment \in Increments}

\* the calls on the OC constructor
approximation_of_increment ==
    \E data \in DataOfIncrement : TimeMeasuredApproximation({"SEQ", "DBM"}, data)

constraint_of_increment ==
    \E data \in DataOfIncrement : TimeMeasuredConstraint(data)

reconstruction_of_increment ==
    \E data \in DataOfIncrement : TimeMeasuredReconstruction(data)

\* DBMReconstructorRinast.time_measured_reconstruction(data): update_sequence
\* or generate_sequence, unless the data has no dbm_init
rinast_time_measured_reconstruction ==
    /\ oc.call = "none"
    /\ steps < MaxTrace - 1
    /\ steps' = steps + 1
    /\ \E data \in DataOfIncrement :
          LET entered == [NoReconstruction EXCEPT !.call = "rinast",
                                                  !.missing = data.dbm_init = NoZone,
                                                  !.count = last_call.count + 1]
              replayed == IF on_the_fly
                          THEN append_sequence_to_ta_system(ta_system, data.seq_incr)
                          ELSE append_sequence_to_ta_system(TASystem, data.seq_full)
          IN  IF data.dbm_init = NoZone
              THEN /\ last_call' = [entered EXCEPT !.raised = "Exception"]
                   /\ UNCHANGED <<returned, currentEvaluation, invalidated, transCount,
                                  evaluations, projections, initialNode, currentNode, dijkstra,
                                  eliminations>>
              ELSE /\ last_call' = entered
                   /\ GenerateSequenceFromTASystemPath(replayed)
    /\ UNCHANGED <<system, pc, seq_full, dbm, counterVars, dbm_init, apx_clocks, oc, on_the_fly,
                   generators, trivial_seq_rec, pureVars>>

trivial_time_measured_reconstruction_RaisingLate ==
    /\ oc.call = "none"
    /\ steps < MaxTrace - 1
    /\ steps' = steps + 1
    /\ \E data \in DataOfIncrement :
          /\ last_call' = [NoReconstruction EXCEPT
                              !.call = "trivial",
                              !.missing = data.dbm_init = NoZone,
                              !.raised = IF data.dbm_init = NoZone THEN "Exception" ELSE "",
                              !.count = last_call.count + 1]
          /\ trivial_seq_rec' = IF on_the_fly THEN trivial_seq_rec \o data.seq_incr
                                ELSE data.seq_full
    /\ UNCHANGED <<rinastVars, dbm_init, apx_clocks, oc, on_the_fly, generators, pureVars>>

\* DBMReconstructorTrivial.time_measured_reconstruction(data)
trivial_time_measured_reconstruction ==
    /\ oc.call = "none"
    /\ steps < MaxTrace - 1
    /\ steps' = steps + 1
    /\ \E data \in DataOfIncrement :
          LET entered == [NoReconstruction EXCEPT !.call = "trivial",
                                                  !.missing = data.dbm_init = NoZone,
                                                  !.count = last_call.count + 1]
          IN  IF data.dbm_init = NoZone
              THEN /\ last_call' = [entered EXCEPT !.raised = "Exception"]
                   /\ trivial_seq_rec' = trivial_seq_rec
              ELSE /\ last_call' = entered
                   /\ trivial_seq_rec' = IF on_the_fly THEN trivial_seq_rec \o data.seq_incr
                                         ELSE data.seq_full
    /\ UNCHANGED <<rinastVars, dbm_init, apx_clocks, oc, on_the_fly, generators, pureVars>>

NextFly ==
    \/ observe
    \/ generator_generate_sequence
    \/ approximation_of_increment
    \/ constraint_of_increment
    \/ reconstruction_of_increment
    \/ rinast_time_measured_reconstruction
    \/ trivial_time_measured_reconstruction

\* the three constructors, each with the same on_the_fly
InitFly ==
    /\ system = FlySystem(ClockCount)
    /\ dbm_init = ZeroZone
    /\ dbm = ZeroZone
    /\ apx_clocks = Tail(clock_names)
    /\ oc = NoCall
    /\ steps = 0
    /\ on_the_fly \in BOOLEAN
    /\ generators = ClearedGenerators
    /\ InitConstructor

SpecFly == InitFly /\ [][NextFly]_vars

(***************************************************************************)
(* The transformations of a DBMSystem applied to Evaluations of any        *)
(* content: a client fills an Evaluation cell by cell and applies a        *)
(* transformation to it.                                                   *)
(***************************************************************************)
\* the DBValues the client stores in the cells
CellValues == {DBValue(0, TRUE), DBValue(MaxVal, FALSE), DBValue(MaxSize, FALSE)}

\* a system with a delay, every reset to 0 and to MaxVal and one constraint
\* for every ordered pair of different clocks, the reference clock included
PairSystem(n) ==
    LET names == {AllClockNames[k] : k \in 2 .. n}
    IN  [clock_count |-> n, trace_limit |-> 0,
         operations |->
            {DelayFuture}
            \cup {Reset(c, v) : c \in names, v \in {0, MaxVal}}
            \cup {Constraint(d[1], d[2], IF d[1] = None THEN "<" ELSE "<=",
                              IF d[2] = None THEN MaxVal ELSE 0) :
                    d \in {e \in (names \cup {None}) \X (names \cup {None}) : e[1] # e[2]}}]

\* the transformations the DBMSystem builds: get_up_transformation,
\* get_urgent_transformation, and get_reset_transformation and
\* get_constraint_transformation for the operations of the system
Transformations == {UrgentT} \cup {TransformationOf(operation) : operation \in operations}

\* Evaluation.set_evaluation(i, value) on the client's Evaluation
set_evaluation(i, value) ==
    /\ ~applied.called
    /\ passed' = [passed EXCEPT ![i] = value]
    /\ UNCHANGED <<rinastVars, ocVars, entryVars, adaptedVars, search, walk, heapVars, applied>>

\* the client drops the Evaluation the last apply returned
drop_result ==
    /\ applied.called
    /\ applied' = NoApplication
    /\ UNCHANGED <<rinastVars, ocVars, entryVars, adaptedVars, search, walk, heapVars, passed>>

\* Transformation.apply(evaluation) of a transformation on the client's
\* Evaluation
transformation_apply(t) ==
    /\ ~applied.called
    /\ applied' = [called |-> TRUE, transformation |-> t, evaluation |-> passed,
                   result |-> apply(t, passed)]
    /\ UNCHANGED <<rinastVars, ocVars, entryVars, adaptedVars, search, walk, heapVars, passed>>

NextEval ==
    \/ \E i \in Indices, value \in CellValues : set_evaluation(i, value)
    \/ \E t \in Transformations : transformation_apply(t)
    \/ drop_result

InitEval == InitRinast(PairSystem(ClockCount))

SpecEval == InitEval /\ [][NextEval]_vars

(***************************************************************************)
(* rinast/dbm/db_value.py on objects: a client constructs DBValue objects, *)
(* sets their fields and adds them.                                        *)
(***************************************************************************)
\* the largest number of DBValue objects of the client
MaxObjects == 3

\* the integers the client passes as a value: small ones, the sentinel and
\* integers close to the sentinel
ValueInputs == {0 - MaxVal, MaxVal, MaxSize - MaxVal, MaxSize}

\* DBValue.add(self, other) on objects: the objects after the call and the
\* object returned
DBValueAdd_InPlace(objects, self, other) ==
    LET ret == self
    IN  [cells |-> [objects EXCEPT ![ret] =
                       IF @.value = MaxSize \/ objects[other].value = MaxSize
                       THEN [value |-> MaxSize, bound |-> FALSE]
                       ELSE [value |-> @.value + objects[other].value,
                             bound |-> @.bound /\ objects[other].bound]],
         ret |-> ret]

DBValueAdd(objects, self, other) ==
    LET ret == Len(objects) + 1
        copied == Append(objects, objects[self])
    IN  [cells |-> [copied EXCEPT ![ret] =
                       IF @.value = MaxSize \/ copied[other].value = MaxSize
                       THEN [value |-> MaxSize, bound |-> FALSE]
                       ELSE [value |-> @.value + copied[other].value,
                             bound |-> @.bound /\ copied[other].bound]],
         ret |-> ret]

\* DBValue(value=value, bound=bound)
db_value_init(value, bound) ==
    /\ Len(cells) < MaxObjects
    /\ cells' = Append(cells, DBValue(value, bound))
    /\ value_call' = [method |-> "__init__", self |-> Len(cells) + 1, other |-> 0, ret |-> 0]
    /\ UNCHANGED <<rinastVars, ocVars, entryVars, adaptedVars, search, walk, passed, applied, evaluation_objects, held, nodes, system_current>>

\* self.set_value(value)
db_value_set_value(self, value) ==
    /\ cells' = [cells EXCEPT ![self] =
                    [value |-> value, bound |-> IF value = MaxSize THEN FALSE ELSE @.bound]]
    /\ value_call' = [method |-> "set_value", self |-> self, other |-> 0, ret |-> 0]
    /\ UNCHANGED <<rinastVars, ocVars, entryVars, adaptedVars, search, walk, passed, applied, evaluation_objects, held, nodes, system_current>>

\* self.set_bound(bound)
db_value_set_bound(self, bound) ==
    /\ cells' = [cells EXCEPT ![self] =
                    [value |-> @.value, bound |-> IF @.value # MaxSize THEN bound ELSE @.bound]]
    /\ value_call' = [method |-> "set_bound", self |-> self, other |-> 0, ret |-> 0]
    /\ UNCHANGED <<rinastVars, ocVars, entryVars, adaptedVars, search, walk, passed, applied, evaluation_objects, held, nodes, system_current>>

\* the sum of the two values lies between -sys.maxsize and sys.maxsize (or
\* one of them is the sentinel and nothing is summed)
WithinSentinel(a, b) ==
    \/ a.value = MaxSize
    \/ b.value = MaxSize
    \/ IF b.value >= 0 THEN a.value <= MaxSize - b.value
                       ELSE a.value >= (0 - MaxSize) - b.value

\* self.add(other), for operands whose sum does not pass the sentinel
db_value_add(self, other) ==
    /\ Len(cells) < MaxObjects
    /\ WithinSentinel(cells[self], cells[other])
    /\ LET added == DBValueAdd(cells, self, other)
       IN  /\ cells' = added.cells
           /\ value_call' = [method |-> "add", self |-> self, other |-> other, ret |-> added.ret]
    /\ UNCHANGED <<rinastVars, ocVars, entryVars, adaptedVars, search, walk, passed, applied, evaluation_objects, held, nodes, system_current>>

NextValue ==
    \/ \E value \in ValueInputs, bound \in BOOLEAN : db_value_init(value, bound)
    \/ \E self \in DOMAIN cells, value \in ValueInputs : db_value_set_value(self, value)
    \/ \E self \in DOMAIN cells, bound \in BOOLEAN : db_value_set_bound(self, bound)
    \/ \E self \in DOMAIN cells, other \in DOMAIN cells : db_value_add(self, other)

InitValue == InitRinast(PairSystem(ClockCount))

SpecValue == InitValue /\ [][NextValue]_vars

(***************************************************************************)
(* The transformations and the GraphReductor on objects: Evaluation        *)
(* objects are lists of DBValue objects, and a DBValue object may be held  *)
(* by several Evaluations and by a mapping at once.  A memory is a record  *)
(* of cells and evals; an operator that allocates returns the memory with  *)
(* the object it returns in the field ret.                                 *)
(***************************************************************************)
\* the fields of the DBValue objects a list of values holds
Deref(objects, values) == [k \in 1 .. Len(values) |-> objects[values[k]]]

\* Evaluation(evaluation=e): a new Evaluation with a new DBValue(other=...)
\* for every value of e
EvaluationCopy(H, e) ==
    LET values == H.evals[e]
        n == Len(H.cells)
    IN  [cells |-> H.cells \o [k \in 1 .. Len(values) |-> H.cells[values[k]]],
         evals |-> Append(H.evals, [k \in 1 .. Len(values) |-> n + k]),
         ret |-> Len(H.evals) + 1]

\* SpecificationMapping.map(parameters) on objects; constant is the DBValue
\* object the mapping holds
MappingMap(H, mapping, constant, parameters) ==
    CASE mapping.kind = "StaticAssignment" -> [H EXCEPT !.ret = constant]
      [] mapping.kind = "StaticAddition" ->
            LET added == DBValueAdd(H.cells, parameters[1], constant)
            IN  [cells |-> added.cells, evals |-> H.evals, ret |-> added.ret]
      [] mapping.kind = "MinimumAssignment" ->
            [H EXCEPT !.ret = IF compare_to(H.cells[constant], H.cells[parameters[1]]) < 0
                              THEN constant ELSE parameters[1]]
      [] mapping.kind = "MinimumAddition" ->
            LET added == DBValueAdd(H.cells, parameters[2], parameters[3])
            IN  [cells |-> added.cells, evals |-> H.evals,
                 ret |-> IF compare_to(added.cells[added.ret], H.cells[parameters[1]]) < 0
                         THEN added.ret ELSE parameters[1]]

\* the loop of SimpleTransformation.apply: result.set_evaluation(e.variable,
\* e.mapping.map(e.get_parameters(evaluation)))
RECURSIVE ApplyEntriesFrom(_, _, _, _, _, _)
ApplyEntriesFrom(H, specificationSet, constants, k, evaluation, result) ==
    IF k > Len(specificationSet) THEN [H EXCEPT !.ret = result]
    ELSE LET e == specificationSet[k]
             parameters == [i \in 1 .. Len(e.parameters) |->
                               H.evals[evaluation][e.parameters[i] + 1]]
             mapped == MappingMap(H, e.mapping, constants[k], parameters)
             next == [cells |-> mapped.cells,
                      evals |-> [mapped.evals EXCEPT ![result][e.variable + 1] = mapped.ret],
                      ret |-> result]
         IN  IF next.ret = 0 THEN next
             ELSE ApplyEntriesFrom(next, specificationSet, constants, k + 1, evaluation, result)

SimpleApplyOn_WithoutCopy(H, specificationSet, constants, evaluation) ==
    ApplyEntriesFrom(H, specificationSet, constants, 1, evaluation, evaluation)

\* SimpleTransformation.apply(evaluation) on objects
SimpleApplyOn(H, specificationSet, constants, evaluation) ==
    LET copied == EvaluationCopy(H, evaluation)
    IN  ApplyEntriesFrom(copied, specificationSet, constants, 1, evaluation, copied.ret)

\* the loop of CompoundTransformation.apply; only the first part of a
\* Constraint transformation has a mapping that holds a DBValue
RECURSIVE ApplyPartsFrom(_, _, _, _, _)
ApplyPartsFrom(H, transformations, constant, k, result) ==
    IF k > Len(transformations) THEN [H EXCEPT !.ret = result]
    ELSE LET next == SimpleApplyOn(H, transformations[k],
                                   <<IF k = 1 THEN constant ELSE 0>>, result)
         IN  IF next.ret = 0 THEN next
             ELSE ApplyPartsFrom(next, transformations, constant, k + 1, next.ret)

\* CompoundTransformation.apply(evaluation) on objects
CompoundApplyOn(H, transformations, constant, evaluation) ==
    LET copied == EvaluationCopy(H, evaluation)
    IN  ApplyPartsFrom(copied, transformations, constant, 1, copied.ret)

\* Transformation.apply on objects; constants are the DBValue objects the
\* mappings of the transformation hold: infty for Up, neg and pos for a
\* Reset, the constraint for a Constraint
ApplyOn(H, t, constants, evaluation) ==
    CASE t.type = "Up" ->
            SimpleApplyOn(H, create_up_transformation,
                          [k \in 1 .. (clock_count - 1) |-> constants[1]], evaluation)
      [] t.type = "Urgent" ->
            SimpleApplyOn(H, create_urgent_transformation,
                          [k \in 1 .. Len(UrgentPairs) |-> 0], evaluation)
      [] t.type = "Reset" ->
            SimpleApplyOn(H, create_reset_transformation(t.clock1, t.value.value),
                          [k \in 1 .. 2 * (clock_count - 1) |-> constants[2 - (k % 2)]],
                          evaluation)
      [] t.type = "Constraint" ->
            CompoundApplyOn(H, create_constraint_transformation(t.clock1, t.clock2, t.value),
                            constants[1], evaluation)

\* the DBValue objects constructed when a transformation is asked for:
\* neg and pos by create_reset_transformation, if the Reset is not cached
\* yet, and the DBValue of a Constraint by the caller of
\* get_constraint_transformation
Constructed(t, cached) ==
    CASE t.type = "Reset" ->
            IF cached THEN <<>>
            ELSE <<DBValue(0 - t.value.value, TRUE), DBValue(t.value.value, TRUE)>>
      [] t.type = "Constraint" -> <<t.value>>
      [] OTHER -> <<>>

\* DBMSystem.__init__: the Up and the Urgent transformation, and the initial
\* Evaluation, every cell of which is the one DBValue zero
dbm_system_init ==
    /\ evaluation_objects = <<>>
    /\ cells = <<>>
    /\ cells' = <<DBValue(MaxSize, FALSE), DBValue(0, TRUE)>>
    /\ held' = <<[transformation |-> UpT, constants |-> <<1>>],
                 [transformation |-> UrgentT, constants |-> <<>>]>>
    /\ evaluation_objects' = <<[k \in 1 .. VarCount |-> 2]>>
    /\ nodes' = <<[evaluation |-> 1, stored |-> [k \in 1 .. VarCount |-> DBValue(0, TRUE)]]>>
    /\ system_current' = [evaluation |-> 1, transCount |-> 0]
    /\ UNCHANGED <<rinastVars, ocVars, entryVars, adaptedVars, search, walk, passed, applied, value_call>>

\* DBMSystem.get_..._transformation and apply_transformation on objects:
\* Transformation.apply on the system_current Evaluation, then GraphReductor.apply,
\* which stores the result as a node unless a node holds equal values and
\* projects a copy of the system_current Evaluation
system_apply_transformation(t) ==
    /\ evaluation_objects # <<>>
    /\ system_current.transCount < MaxTrace
    /\ LET cached == \E k \in DOMAIN held : held[k].transformation = t
           constructed == Constructed(t, cached)
           now == IF cached THEN held
                  ELSE Append(held, [transformation |-> t,
                                     constants |-> [k \in 1 .. Len(constructed) |->
                                                       Len(cells) + k]])
           constants == (CHOOSE h \in {now[k] : k \in DOMAIN now} :
                             h.transformation = t).constants
           applied_on == ApplyOn([cells |-> cells \o constructed,
                                  evals |-> evaluation_objects, ret |-> 0],
                                 t, constants, system_current.evaluation)
           transformed_evaluation == applied_on.ret
           values == Deref(applied_on.cells, applied_on.evals[transformed_evaluation])
           projected == EvaluationCopy(applied_on, system_current.evaluation)
           variables == ProjectionVariables(t)
           n == Len(projected.cells)
           new_values == [k \in 1 .. Len(variables) |->
                             projected.cells[projected.evals[projected.ret][variables[k] + 1]]]
       IN  /\ held' = now
           /\ cells' = projected.cells \o new_values
           /\ evaluation_objects' = [projected.evals EXCEPT
                           ![projected.ret] = [k \in 1 .. Len(variables) |-> n + k]]
           /\ nodes' = IF \E k \in DOMAIN nodes :
                             Deref(applied_on.cells, applied_on.evals[nodes[k].evaluation]) = values
                       THEN nodes
                       ELSE Append(nodes, [evaluation |-> transformed_evaluation,
                                           stored |-> values])
           /\ system_current' = [evaluation |-> transformed_evaluation,
                          transCount |-> system_current.transCount + 1]
    /\ UNCHANGED <<rinastVars, ocVars, entryVars, adaptedVars, search, walk, passed, applied, value_call>>

NextHeap ==
    \/ dbm_system_init
    \/ \E t \in Transformations : system_apply_transformation(t)

InitHeap == InitRinast(PairSystem(ClockCount))

SpecHeap == InitHeap /\ [][NextHeap]_vars

(***************************************************************************)
(* model_adaptor/model_adaptor.py: the adapted model and its runs          *)
(***************************************************************************)
\* the longest construction sequence handed to the adaptor
MaxSeq == 4

sync_prefix == "SYNC_"

dbm_prefix == "DBM_"

init_end == dbm_prefix \o "init_end"

\* the operation sequences the adaptor is given
AdaptorOperations ==
    {Constraint(AllClockNames[2], None, "<=", MaxVal), Constraint(None, AllClockNames[2], "<", 0),
     Close, Reset(AllClockNames[2], 0), Reset(AllClockNames[3], MaxVal), DelayFuture}

AdaptorSequences == UNION {[1 .. n -> AdaptorOperations] : n \in 0 .. MaxSeq}

\* the inner while loops: the index after the operations of one class that
\* start at seq_index
RECURSIVE SkipClass(_, _, _)
SkipClass_OneOperation(seq, seq_index, class) ==
    IF seq_index <= Len(seq) /\ seq[seq_index].op = class THEN seq_index + 1 ELSE seq_index

SkipClass(seq, seq_index, class) ==
    IF seq_index <= Len(seq) /\ seq[seq_index].op = class
    THEN SkipClass(seq, seq_index + 1, class)
    ELSE seq_index

\* the outer while loop: one Rec location and one edge into it for every
\* group of constraints, closes, resets and delays
RECURSIVE GatherFrom(_, _, _, _)
GatherFrom(seq, seq_index, loc_count, tmpl_init) ==
    IF seq_index > Len(seq) THEN [tmpl |-> tmpl_init, loc_count |-> loc_count]
    ELSE LET after_constrs == SkipClass(seq, seq_index, "Constraint")
             after_close == SkipClass(seq, after_constrs, "Close")
             after_resets == SkipClass(seq, after_close, "Reset")
             after_delay == SkipClass(seq, after_resets, "DelayFuture")
             constrs == SubSeq(seq, seq_index, after_constrs - 1)
             resets == SubSeq(seq, after_close, after_resets - 1)
             do_delay_future == after_delay > after_resets
             prev_loc == IF loc_count = 0 THEN Location("Init", 0)
                         ELSE Location("Rec", loc_count)
             curr_loc == Location("Rec", loc_count + 1)
             next == [tmpl_init EXCEPT
                         !.locations = @ \cup {curr_loc},
                         !.urgent = IF do_delay_future THEN @ ELSE @ \cup {curr_loc},
                         !.edges = @ \cup {[UppaalEdge(prev_loc, curr_loc, "", constrs)
                                               EXCEPT !.resets = resets]}]
         IN  IF after_delay > Len(seq)
             THEN [tmpl |-> next, loc_count |-> loc_count + 1]
             ELSE GatherFrom(seq, after_delay, loc_count + 1, next)

\* the edge into End: the one that sends DBM_init_end
FinalEdge_OnFirstEdge(tmpl, loc_count) ==
    UppaalEdge(Location("Init", 0), Location("End", 0), init_end \o "!", <<>>)

FinalEdge(tmpl, loc_count) ==
    UppaalEdge(IF loc_count = 0 THEN Location("Init", 0) ELSE Location("Rec", loc_count),
               Location("End", 0), init_end \o "!", <<>>)

insert_state_construction_template(sys, seq) ==
    LET loc_init == Location("Init", 0)
        tmpl_init == [init |-> loc_init, locations |-> {loc_init}, committed |-> {loc_init},
                      urgent |-> {}, edges |-> {}]
        gathered == GatherFrom(seq, 1, 0, tmpl_init)
        with_end == [gathered.tmpl EXCEPT
                        !.locations = @ \cup {Location("End", 0)},
                        !.edges = @ \cup {FinalEdge(gathered.tmpl, gathered.loc_count)}]
    IN  [sys EXCEPT !.construction = with_end]

\* the first instance of a template
InstanceOf(instance_data, tmpl_name) ==
    CHOOSE inst_name \in DOMAIN instance_data : instance_data[inst_name] = tmpl_name

add_state_construction_sequences_to_templates(sys, instance_data, loc_state) ==
    [sys EXCEPT !.templates =
        [tmpl_name \in DOMAIN sys.templates |->
            LET tmpl == sys.templates[tmpl_name]
                loc_init_orig == loc_state[InstanceOf(instance_data, tmpl_name)]
                loc_sync_pre_init == Location(sync_prefix \o "Pre_Init", 0)
            IN  [tmpl EXCEPT
                    !.locations = @ \cup {loc_sync_pre_init},
                    !.init = loc_sync_pre_init,
                    !.edges = @ \cup {UppaalEdge(loc_sync_pre_init, loc_init_orig,
                                                 init_end \o "?",
                                                 tmpl.invariants[loc_init_orig])}]]]

add_state_construction_variables(sys) ==
    [sys EXCEPT !.channels = @ \cup {init_end},
                !.processes = [n \in DOMAIN @ \cup {dbm_init_inst_name} |->
                                  IF n = dbm_init_inst_name THEN dbm_init_tmpl_name ELSE @[n]]]

\* the template of a process of the adapted system
TemplateOf(sys, process) ==
    IF sys.processes[process] = dbm_init_tmpl_name THEN sys.construction
    ELSE sys.templates[sys.processes[process]]

Adapted == init_end \in nta.channels

\* StateConstructionModelAdaptor.add_state_construction_components, and the
\* adapted system loaded: every process is in the initial location of its
\* template
add_state_construction_components(seq, loc_state) ==
    /\ ~Adapted
    /\ LET instance_data == nta.processes
           with_sequences == add_state_construction_sequences_to_templates(
                                 [templates |-> nta.templates, channels |-> nta.channels,
                                  processes |-> nta.processes, construction |-> <<>>],
                                 instance_data, loc_state)
           with_template == insert_state_construction_template(with_sequences, seq)
           adapted == add_state_construction_variables(with_template)
       IN  /\ nta' = adapted
           /\ location_state' = [p \in ProcessNames |-> TemplateOf(adapted, p).init]
    /\ construction_seq' = seq
    /\ UNCHANGED <<rinastVars, ocVars, entryVars, search, walk, passed, applied, heapVars>>

\* the edges a process can take from its active location
EdgesOf(process) ==
    {e \in TemplateOf(nta, process).edges : e.source = location_state[process]}

\* the processes allowed to move: those in committed locations, if any
Movable ==
    LET in_committed == {p \in ProcessNames :
                            location_state[p] \in TemplateOf(nta, p).committed}
    IN  IF in_committed = {} THEN ProcessNames ELSE in_committed

\* a process takes an edge without synchronisation
internal_transition(process) ==
    /\ Adapted
    /\ process \in Movable
    /\ \E edge \in EdgesOf(process) :
          /\ edge.sync = ""
          /\ location_state' = [location_state EXCEPT ![process] = edge.target]
    /\ UNCHANGED <<rinastVars, ocVars, entryVars, search, walk, passed, applied, heapVars, nta,
                   construction_seq>>

\* a process sends on the broadcast channel: every other process with a
\* receiving edge whose guard holds takes it.  Clock values are not kept: a
\* guard with clock constraints may or may not hold, one without holds
broadcast_transition(process, receivers) ==
    /\ Adapted
    /\ process \in Movable
    /\ \E edge \in EdgesOf(process) :
          /\ edge.sync = init_end \o "!"
          /\ LET Receiving(q) == {e \in EdgesOf(q) : e.sync = init_end \o "?"}
                 able == {q \in ProcessNames \ {process} : Receiving(q) # {}}
                 must == {q \in able : \E e \in Receiving(q) : e.guards = <<>>}
             IN  /\ must \subseteq receivers
                 /\ receivers \subseteq able
                 /\ location_state' =
                        [p \in ProcessNames |->
                            IF p = process THEN edge.target
                            ELSE IF p \in receivers
                                 THEN (CHOOSE e \in Receiving(p) : TRUE).target
                                 ELSE location_state[p]]
    /\ UNCHANGED <<rinastVars, ocVars, entryVars, search, walk, passed, applied, heapVars, nta,
                   construction_seq>>

NextAdapted ==
    \/ \E seq \in AdaptorSequences, loc_state \in [OriginalNames -> OriginalLocations] :
          add_state_construction_components(seq, loc_state)
    \/ \E process \in ProcessNames : internal_transition(process)
    \/ \E process \in ProcessNames, receivers \in SUBSET ProcessNames :
          broadcast_transition(process, receivers)

InitAdapted == InitRinast(PairSystem(ClockCount))

SpecAdapted == InitAdapted /\ [][NextAdapted]_vars

(***************************************************************************)
(* rinast/trans/reduce/graph/dijkstra_algorithm.py, step by step           *)
(***************************************************************************)
DistPrioritizedNode(dist, node) == [dist |-> dist, node |-> node]

\* DijkstraAlgorithm.__init__: predecessor None is the empty tuple
DijkstraAlgorithm(initial, graph_nodes) ==
    [phase |-> "running",
     distances |-> [node \in graph_nodes |-> IF node = initial THEN 0 ELSE MaxSize],
     predecessors |-> [node \in graph_nodes |-> <<>>],
     transformations |-> [node \in {} |-> UpT],
     queue |-> {DistPrioritizedNode(IF node = initial THEN 0 ELSE MaxSize, node) :
                   node \in graph_nodes},
     target |-> <<>>]

\* PriorityQueue.get: an element no other element is less than; which of
\* several elements of equal dist the heap gives is not fixed by __lt__
QueueGet_AnyElement(queue) == queue

QueueGet(queue) == {elem \in queue : \A other \in queue : ~(other.dist < elem.dist)}

\* the orders in which a set of edges can be iterated
EdgeOrders(edges) ==
    {order \in [1 .. Cardinality(edges) -> edges] :
        \A a, b \in 1 .. Cardinality(edges) : order[a] = order[b] => a = b}

\* the for loop over node.get_edges(), from the k-th edge on
RECURSIVE RelaxFrom(_, _, _, _, _)
RelaxFrom(order, k, node, dist, algorithm) ==
    IF k > Len(order) THEN algorithm
    ELSE LET edge == order[k]
             neighbor == edge.target
             next == IF dist + 1 < algorithm.distances[neighbor]
                     THEN [algorithm EXCEPT
                              !.distances[neighbor] = dist + 1,
                              !.transformations = DictPut(@, neighbor, edge.transformation),
                              !.predecessors[neighbor] = node,
                              !.queue = {old_queue_elem \in @ : old_queue_elem.node # neighbor}
                                           \cup {DistPrioritizedNode(dist + 1, neighbor)}]
                     ELSE algorithm
         IN  IF k = Len(order) THEN next ELSE RelaxFrom(order, k + 1, node, dist, next)

\* DijkstraAlgorithm.get_shortest_path
RECURSIVE get_shortest_path(_, _, _)
get_shortest_path(algorithm, current, path) ==
    IF algorithm.predecessors[current] = <<>> THEN path
    ELSE get_shortest_path(algorithm, algorithm.predecessors[current],
                           <<algorithm.transformations[current]>> \o path)

\* GraphReductor.eliminate up to the first test of the while loop
eliminate ==
    /\ pc = "gen"
    /\ pc' = "search"
    /\ search' = [DijkstraAlgorithm(initialNode, DOMAIN evaluations) EXCEPT
                     !.target = currentNode]
    /\ UNCHANGED <<ocVars, entryVars, passed, applied, heapVars, adaptedVars, walk, system,
                   seq_full, returned, dbm, currentEvaluation, invalidated, transCount,
                   evaluations, projections, initialNode, currentNode, dijkstra,
                   eliminations, counterVars>>

\* one iteration of the while loop of find_shortest_path (or its exit)
find_shortest_path_iteration ==
    /\ pc = "search"
    /\ search.phase = "running"
    /\ IF search.queue = {}
       THEN search' = [search EXCEPT !.phase = "finished"]
       ELSE \E queue_elem \in QueueGet(search.queue) :
               LET node == queue_elem.node
                   dist == queue_elem.dist
                   taken == [search EXCEPT !.queue = @ \ {queue_elem}]
               IN  IF node = search.target \/ dist = MaxSize
                   THEN search' = [taken EXCEPT !.phase = "finished"]
                   ELSE \E order \in EdgeOrders(evaluations[node]) :
                           search' = RelaxFrom(order, 1, node, dist, taken)
    /\ UNCHANGED <<ocVars, entryVars, passed, applied, heapVars, adaptedVars, walk, system, pc,
                   seq_full, returned, dbm, currentEvaluation, invalidated, transCount,
                   evaluations, projections, initialNode, currentNode, dijkstra,
                   eliminations, counterVars>>

\* GraphReductor.get_path, and the rest of generate_sequence
get_path ==
    /\ pc = "search"
    /\ search.phase = "finished"
    /\ pc' = "idle"
    /\ LET path == get_shortest_path(search, search.target, <<>>)
       IN  /\ dijkstra' = <<[target |-> currentNode, path |-> path]>>
           /\ returned' = generate_sequence_from_path(path)
    /\ invalidated' = FALSE
    /\ eliminations' = eliminations + 1
    /\ UNCHANGED <<ocVars, entryVars, pureVars, system, seq_full, dbm, currentEvaluation,
                   transCount, evaluations, projections, initialNode, currentNode,
                   counterVars>>

\* generate_sequence, entry, on a constructor that has not searched yet
first_generate_sequence_begin ==
    /\ search.phase = "none"
    /\ generate_sequence_begin

NextSearch ==
    \/ first_generate_sequence_begin
    \/ append_operation
    \/ append_close
    \/ eliminate
    \/ find_shortest_path_iteration
    \/ get_path

InitSearch == InitRinast(BroadSystem(ClockCount))

\* the while loop of find_shortest_path runs without interruption
SpecSearch == InitSearch /\ [][NextSearch]_vars /\ WF_vars(find_shortest_path_iteration)

(***************************************************************************)
(* Properties                                                              *)
(***************************************************************************)
\* C1: GraphReductor reduction correctness.  Whenever get_reduced_path has
\* returned for a recorded sequence, the returned list, applied in order
\* from the initial Evaluation, yields the current Evaluation.
C1_GraphReductionCorrect ==
    dijkstra # <<>> => ApplyPath(dijkstra[1].path, initialNode) = currentEvaluation

\* a reduction that dropped some but not all recorded transformations
C1_Witness ==
    /\ dijkstra # <<>>
    /\ Len(dijkstra[1].path) > 0
    /\ Len(dijkstra[1].path) < transCount

\* C2: Rinast end-to-end equivalence.  The sequence generate_sequence
\* returns for a trace, applied to the all-zero zone and closed, is the zone
\* of the trace itself applied to the all-zero zone and closed.
C2_RinastEquivalence ==
    (pc = "idle" /\ dijkstra # <<>>) =>
        ZoneClose(SequenceApply(returned, ZeroZone)) = ZoneClose(SequenceApply(seq_full, ZeroZone))

\* a list is a sub-sequence of another: its elements occur in it, in order
RECURSIVE IsSubSeq(_, _)
IsSubSeq(a, b) ==
    IF a = <<>> THEN TRUE
    ELSE IF b = <<>> THEN FALSE
    ELSE IF Head(a) = Head(b) THEN IsSubSeq(Tail(a), Tail(b))
    ELSE IsSubSeq(a, Tail(b))

\* the recording on the CounterReductor system has come to its end: its
\* get_reduced_path returned, or one of its calls raised
CounterFinished == crPath # <<>> \/ crRaised # ""

\* C8: reduction minimality vs. baseline.  For every recorded sequence the
\* CounterReductor returns a path, and the path the GraphReductor returns
\* for the same sequence is not longer.
C8_GraphNotLongerThanCounter ==
    (dijkstra # <<>> /\ CounterFinished) =>
        /\ crPath # <<>>
        /\ Len(dijkstra[1].path) <= Len(crPath[1])

\* C9: CounterReductor reduction correctness.  For every sequence recorded
\* with initialize/apply, eliminate() and get_path() return a sub-sequence
\* of the recorded sequence that, applied from the initial Evaluation,
\* yields the final Evaluation.
C9_CounterReductionCorrect ==
    CounterFinished =>
        /\ crPath # <<>>
        /\ IsSubSeq(crPath[1], TraceTransformations(seq_full))
        /\ ApplyPath(crPath[1], create_evaluation)
              = ApplyPath(TraceTransformations(seq_full), create_evaluation)

\* every point of the zone inner lies in the zone outer: after closure no
\* entry of outer is below the entry of inner
ZoneContains(outer, inner) ==
    LET O == ZoneClose(outer)
        I == ZoneClose(inner)
    IN  \A p \in Pairs : ~EntryLess(O[p], I[p])

\* close(apply(S, Z0)) for the observed trace S and the initial zone Z0
TraceTarget == ZoneClose(SequenceApply(seq_full, dbm_init))

\* C3: OC pipeline round-trip.  With the sequence-based approximator and any
\* of the constrainers FCS, MCS, RCS, time_measured_reconstruction returns a
\* dbm_rec whose closure is close(apply(S, Z0)), for the trace S and the
\* initial zone Z0 it was given.
C3_OCRoundTrip ==
    (oc.call = "time_measured_reconstruction" /\ oc.approximation_strategy = "SEQ") =>
        /\ oc.raised = ""
        /\ ZoneClose(oc.dbm_rec) = TraceTarget

\* a reconstruction whose approximation dropped operations of the trace and
\* whose constraint phase had entries to tighten
C3_Witness ==
    /\ oc.call = "time_measured_reconstruction"
    /\ oc.approximation_strategy = "SEQ"
    /\ oc.constraint_strategy = "RCS"
    /\ Len(oc.seq_approx) > 0
    /\ Len(oc.seq_approx) < Len(seq_full)
    /\ ZoneClose(oc.dbm_approx) # TraceTarget
    /\ ZoneClose(oc.dbm_rec) = TraceTarget

\* C4: the sequence-based approximation is a relaxation.  The zone
\* apply(approx(S), Z0) contains the zone apply(S, Z0): after closure every
\* entry of the approximated zone is at least the entry of the target.
C4_SeqApproximationRelaxes ==
    (oc.call = "time_measured_approximation" /\ oc.approximation_strategy = "SEQ") =>
        /\ oc.raised = ""
        /\ \A p \in Pairs : ~EntryLess(ZoneClose(oc.dbm_approx)[p], TraceTarget[p])

\* an approximation that is strictly larger than the target
C4_Witness ==
    /\ oc.call = "time_measured_approximation"
    /\ oc.approximation_strategy = "SEQ"
    /\ Len(oc.seq_approx) > 1
    /\ \E p \in Pairs : EntryLess(TraceTarget[p], ZoneClose(oc.dbm_approx)[p])

\* the last Reset of every clock a trace resets, in the order of the trace
RECURSIVE LastResets(_)
LastResets(seq) ==
    IF seq = <<>> THEN <<>>
    ELSE IF /\ Head(seq).op = "Reset"
            /\ ~\E k \in 2 .. Len(seq) :
                  seq[k].op = "Reset" /\ seq[k].clock1 = Head(seq).clock1
         THEN <<Head(seq)>> \o LastResets(Tail(seq))
         ELSE LastResets(Tail(seq))

\* a result with the last Reset of every clock of the trace, no Constraint,
\* no Close and no two adjacent DelayFutures
KeepsLastResets(result, seq) ==
    /\ ResetsOf(result) = LastResets(seq)
    /\ \A k \in 1 .. Len(result) : result[k].op \in {"Reset", "DelayFuture"}
    /\ \A k \in 1 .. (Len(result) - 1) :
          ~(result[k].op = "DelayFuture" /\ result[k + 1].op = "DelayFuture")

\* the trace of the example and the result the example expects
ExampleTrace ==
    <<Reset("x", 0), DelayFuture, Reset("y", 0), DelayFuture, Reset("x", 3), DelayFuture>>
ExampleResult == <<Reset("y", 0), DelayFuture, Reset("x", 3), DelayFuture>>

\* the clocks of the approximator include every clock the trace resets
ClocksCoverResets ==
    \A k \in 1 .. Len(seq_full) :
        seq_full[k].op = "Reset" => InList(apx_clocks, seq_full[k].clock1)

\* C10 as stated: for every trace S and every clock list C the result of the
\* sequence-based approximator holds exactly the last Reset of each clock S
\* resets, in the order of those last occurrences, no Constraint, no Close and
\* never two adjacent DelayFutures.
C10_AnyClockList ==
    oc.call = "generate_sequence" => KeepsLastResets(oc.seq_approx, seq_full)

\* C10: the sequence-based approximator keeps only the most recent reset per
\* clock.  For every trace S and every clock list C that holds every clock S
\* resets, the result holds exactly the last Reset of each clock S resets, in
\* the order of those last occurrences, no Constraint, no Close and never two
\* adjacent DelayFutures; the trace of the example yields the result of the
\* example.
C10_KeepsLastResetPerClock ==
    /\ generate_approximation_sequence_via_seq(ExampleTrace, <<"x", "y">>) = ExampleResult
    /\ (oc.call = "generate_sequence" /\ ClocksCoverResets) =>
            KeepsLastResets(oc.seq_approx, seq_full)

\* a trace that resets a clock twice, approximated with all clocks listed
C10_Witness ==
    /\ oc.call = "generate_sequence"
    /\ ClocksCoverResets
    /\ Len(ResetsOf(seq_full)) > Len(LastResets(seq_full))
    /\ Len(LastResets(seq_full)) = 2
    /\ Len(oc.seq_approx) > 2

\* C5: the zone-based approximation is a relaxation.  For a non-empty
\* canonical target zone, generate_approximation_sequence_via_dbm_target
\* completes, and its result applied to the all-zero zone yields a zone that
\* contains the target.
C5_ZoneApproximationRelaxes ==
    (/\ oc.call = "time_measured_approximation"
     /\ oc.approximation_strategy = "DBM"
     /\ oc.data.dbm_init = ZeroZone) =>
        /\ oc.raised = ""
        /\ ZoneContains(oc.dbm_approx, oc.data.dbm_target)

\* a zone-based approximation that completed with a path over all clocks
C5_Witness ==
    /\ oc.call = "time_measured_approximation"
    /\ oc.approximation_strategy = "DBM"
    /\ oc.data.dbm_init = ZeroZone
    /\ oc.raised = ""
    /\ Len(oc.seq_approx) = 2 * (clock_count - 1)
    /\ ZoneContains(oc.dbm_approx, oc.data.dbm_target)

\* the number of operations of a kind in a sequence
CountOf(seq, kind) == Cardinality({k \in 1 .. Len(seq) : seq[k].op = kind})

\* C6: MCS exactness.  For a non-empty canonical target zone T and a zone Z
\* that contains T, the sequence of generate_constraint_sequence_via_mcs(T)
\* applied to Z and closed is T; for the target of the 3-node scenario the
\* sequence has at most 4 Constraints and at most one Close.
C6_MCSExact ==
    (/\ oc.call = "time_measured_constraint"
     /\ oc.constraint_strategy = "MCS"
     /\ ZoneContains(oc.data.dbm_init, oc.data.dbm_target)) =>
        /\ ZoneClose(oc.dbm_constr) = oc.data.dbm_target
        /\ (clock_count = 3 /\ oc.data.dbm_target = ScenarioTarget) =>
              /\ CountOf(oc.seq_constr, "Constraint") <= 4
              /\ CountOf(oc.seq_constr, "Close") <= 1

\* MCS for a target with a class of two clocks and a class of one, from a
\* zone that is strictly larger than the target
C6_Witness ==
    /\ oc.call = "time_measured_constraint"
    /\ oc.constraint_strategy = "MCS"
    /\ ZoneContains(oc.data.dbm_init, oc.data.dbm_target)
    /\ ZoneClose(oc.data.dbm_init) # oc.data.dbm_target
    /\ Len(get_zero_equivalence_classes(oc.data.dbm_target)) = clock_count - 1
    /\ CountOf(oc.seq_constr, "Close") = 1
    /\ ZoneClose(oc.dbm_constr) = oc.data.dbm_target

\* C7: RCS exactness.  For a non-empty canonical target zone T and a
\* canonical zone Z that contains T, the sequence of
\* generate_constraint_sequence_via_rcs(Z, T) applied to Z and closed is T.
C7_RCSExact ==
    (/\ oc.call = "time_measured_constraint"
     /\ oc.constraint_strategy = "RCS"
     /\ ZoneClose(oc.data.dbm_init) = oc.data.dbm_init
     /\ ZoneContains(oc.data.dbm_init, oc.data.dbm_target)) =>
        ZoneClose(oc.dbm_constr) = oc.data.dbm_target

\* RCS that omitted the constraint of a finite entry on which source and
\* target agree, and emitted others
C7_Witness ==
    /\ oc.call = "time_measured_constraint"
    /\ oc.constraint_strategy = "RCS"
    /\ ZoneClose(oc.data.dbm_init) = oc.data.dbm_init
    /\ ZoneContains(oc.data.dbm_init, oc.data.dbm_target)
    /\ CountOf(oc.seq_constr, "Constraint") > 0
    /\ CountOf(oc.seq_constr, "Constraint")
          < CountOf(generate_constraint_sequence_via_mcs(oc.data.dbm_target), "Constraint")
    /\ ZoneClose(oc.dbm_constr) = oc.data.dbm_target

\* the classes are a partition of the clocks of the zone: no class is empty
\* and every clock index is at exactly one position of exactly one class
IsClockPartition(eqs) ==
    /\ \A i \in 1 .. Len(eqs) : Len(eqs[i]) > 0
    /\ \A c \in ClockIdx :
          Cardinality({q \in (1 .. Len(eqs)) \X (1 .. clock_count) :
                          q[2] <= Len(eqs[q[1]]) /\ eqs[q[1]][q[2]] = c}) = 1

\* C11: get_zero_equivalence_classes returns a partition of the clocks of the
\* zone, reference clock included: for the target and for the initial zone of
\* every constraint phase, every clock index is in exactly one class and no
\* class is empty.
C11_ZeroEquivalencePartition ==
    oc.call = "time_measured_constraint" =>
        /\ IsClockPartition(get_zero_equivalence_classes(oc.data.dbm_target))
        /\ IsClockPartition(get_zero_equivalence_classes(oc.data.dbm_init))

\* a constraint phase for a target with a class of several clocks next to
\* another class
C11_Witness ==
    /\ oc.call = "time_measured_constraint"
    /\ oc.constraint_strategy = "MCS"
    /\ Len(get_zero_equivalence_classes(oc.data.dbm_target)) = 2
    /\ Len(get_zero_equivalence_classes(oc.data.dbm_target)[2]) = 2

\* the number of entries of a zone that are +infinity
InfiniteEntries(Z) == Cardinality({p \in Pairs : Z[p].val = inf})

\* a sequence of Constraints, ended by one Close exactly if the Constraints
\* are fewer than the n * (n - 1) entries less the +infinity entries of the target
FollowsCloseRule(seq, dbm_target) ==
    LET constraints == CountOf(seq, "Constraint")
    IN  IF constraints < clock_count * (clock_count - 1) - InfiniteEntries(dbm_target)
        THEN /\ Len(seq) = constraints + 1
             /\ seq[Len(seq)].op = "Close"
             /\ \A k \in 1 .. constraints : seq[k].op = "Constraint"
        ELSE /\ Len(seq) = constraints
             /\ \A k \in 1 .. constraints : seq[k].op = "Constraint"

\* C12: trailing Close rule.  The sequence FCS, MCS or RCS generates for a
\* target ends with exactly one Close if it holds fewer Constraints than
\* n * (n - 1) less the number of +infinity entries of the target, and holds no
\* Close otherwise; no Close comes before a Constraint.
C12_TrailingCloseRule ==
    oc.call = "time_measured_constraint" =>
        FollowsCloseRule(oc.seq_constr, oc.data.dbm_target)

\* MCS for a target whose finite entries all get a Constraint, so no Close
C12_Witness ==
    /\ oc.call = "time_measured_constraint"
    /\ oc.constraint_strategy = "MCS"
    /\ InfiniteEntries(oc.data.dbm_target) = 0
    /\ CountOf(oc.seq_constr, "Constraint") = clock_count * (clock_count - 1)
    /\ CountOf(oc.seq_constr, "Close") = 0

\* all orderings of the members of a list
Orderings(list) ==
    {f \in [1 .. Len(list) -> {list[k] : k \in 1 .. Len(list)}] :
        \A a, b \in 1 .. Len(list) : f[a] = f[b] => a = b}

\* the number of fixed edges on the cycle over an ordering
FixedOnCycle(ordering, fixed_edges) ==
    Cardinality({k \in 1 .. Len(get_cycle(ordering)) : InList(fixed_edges, get_cycle(ordering)[k])})

\* the largest number of fixed edges on the cycle of any ordering of a class
MaxFixedOnCycle(eq, fixed_edges) ==
    CHOOSE m \in 0 .. Len(eq) :
        /\ \E f \in Orderings(eq) : FixedOnCycle(f, fixed_edges) = m
        /\ \A f \in Orderings(eq) : FixedOnCycle(f, fixed_edges) <= m

\* C13: RCS permutation bound.  For a class of at most 5 clocks every
\* permutation of the class is examined and the selected cycle has the
\* largest number of fixed edges of all permutations; for a class of 6 or
\* more clocks exactly one permutation is examined.
C13_RCSPermutationBound ==
    (oc.call = "time_measured_constraint" /\ oc.constraint_strategy = "RCS") =>
        LET fixed_edges == FixedEdges(oc.data.dbm_init, oc.data.dbm_target)
            eqs == get_zero_equivalence_classes(oc.data.dbm_target)
        IN  \A i \in 1 .. Len(eqs) : \A shuffled \in RandomPermutations(eqs)[i] :
                LET examined == eq_i_permutations(eqs[i], shuffled)
                    selected == NonFixedCycleEdges(eqs[i], fixed_edges, shuffled)
                IN  IF Len(eqs[i]) <= 5
                    THEN /\ {examined[k] : k \in 1 .. Len(examined)} = Orderings(eqs[i])
                         /\ Len(selected) = Len(get_cycle(eqs[i]))
                                               - MaxFixedOnCycle(eqs[i], fixed_edges)
                    ELSE /\ Len(examined) = 1
                         /\ Len(selected) <= Len(eqs[i])

\* RCS for a target with a class of five clocks whose best cycle has a fixed
\* edge the cycle of its first permutation has not
C13_Witness ==
    /\ oc.call = "time_measured_constraint"
    /\ oc.constraint_strategy = "RCS"
    /\ LET fixed_edges == FixedEdges(oc.data.dbm_init, oc.data.dbm_target)
           eqs == get_zero_equivalence_classes(oc.data.dbm_target)
       IN  /\ Len(eqs) = 2
           /\ Len(eqs[2]) = 5
           /\ MaxFixedOnCycle(eqs[2], fixed_edges) > FixedOnCycle(eqs[2], fixed_edges)

\* the call returned a reconstruction
Reconstructed == oc.call = "time_measured_reconstruction" /\ oc.raised = ""

\* C14: time_measured_reconstruction returns seq_rec = seq_approx followed by
\* seq_constr; seq_constr is one the constrainer computes against the zone
\* that seq_approx makes of the source; dbm_rec is seq_rec applied to the
\* source; measures.seq_full_length = len(seq_approx) + len(seq_constr) =
\* len(seq_rec)
C14_CompositionOrder ==
    Reconstructed =>
        LET approximated == SequenceApply(oc.seq_approx, oc.data.dbm_init)
        IN  /\ oc.seq_rec = oc.seq_approx \o oc.seq_constr
            /\ oc.seq_approx \in ApproximationSequences(oc.approximation_strategy, oc.data)
            /\ oc.seq_constr \in ConstraintSequences(oc.constraint_strategy,
                                    [oc.data EXCEPT !.dbm_init = approximated])
            /\ oc.dbm_rec = SequenceApply(oc.seq_rec, oc.data.dbm_init)
            /\ oc.measures.seq_full_length = Len(oc.seq_approx) + Len(oc.seq_constr)
            /\ oc.measures.seq_full_length = Len(oc.seq_rec)

\* a reconstruction with both parts non-empty whose RCS constraints depend on
\* the approximated zone: against the source itself RCS would return another
\* sequence
C14_Witness ==
    /\ Reconstructed
    /\ oc.constraint_strategy = "RCS"
    /\ oc.seq_approx # <<>>
    /\ oc.seq_constr # <<>>
    /\ oc.seq_constr \notin ConstraintSequences("RCS", oc.data)

\* the sequences the four generators without an incremental update store
StoredWithoutUpdate(stored) == <<stored.DBM, stored.FCS, stored.MCS, stored.RCS>>

\* C15: with on_the_fly on, update_sequence of the zone-based approximator
\* and of the three constrainers raises and returns no sequence, and the
\* sequences these four store stay as they were (no generate_sequence in its
\* place); time_measured_reconstruction raises for every pair of strategies
C15_UnsupportedUpdateFatal ==
    [][(on_the_fly /\ oc.call = "none" /\ oc'.call # "none") =>
          /\ StoredWithoutUpdate(generators') = StoredWithoutUpdate(generators)
          /\ (oc'.call = "time_measured_approximation" /\ oc'.approximation_strategy = "DBM")
                => (oc'.raised = "Exception" /\ oc'.seq_approx = <<>>)
          /\ oc'.call = "time_measured_constraint"
                => (oc'.raised = "Exception" /\ oc'.seq_constr = <<>>)
          /\ oc'.call = "time_measured_reconstruction"
                => (oc'.raised = "Exception" /\ oc'.seq_constr = <<>> /\ oc'.seq_rec = <<>>)
      ]_vars

\* an on-the-fly reconstruction with a source zone that failed in its
\* constraint phase, after the sequence-based approximator had updated its
\* sequence, while the constrainer stores a sequence generated before
C15_Witness ==
    /\ on_the_fly
    /\ oc.call = "time_measured_reconstruction"
    /\ oc.data.dbm_init # NoZone
    /\ oc.approximation_strategy = "SEQ"
    /\ oc.seq_approx # <<>>
    /\ oc.raised = "Exception"
    /\ generators[oc.constraint_strategy] # <<>>

\* what the three constructors keep between calls: the generators of the OC
\* constructor, the system and the last result of the Rinast constructor,
\* the sequence of the Trivial constructor
Kept == <<generators, ta_system, returned, trivial_seq_rec>>

\* C16: a time_measured_approximation, time_measured_constraint or
\* time_measured_reconstruction of the OC constructor, and a
\* time_measured_reconstruction of the Rinast or of the Trivial constructor,
\* whose data has no dbm_init raises, returns nothing, and leaves every
\* stored sequence and the replayed system as they were
C16_MissingSourceFatal ==
    [][/\ (oc.call = "none" /\ oc'.call # "none" /\ oc'.data.dbm_init = NoZone) =>
             /\ oc' = [NoCall EXCEPT !.call = oc'.call,
                                     !.approximation_strategy = oc'.approximation_strategy,
                                     !.constraint_strategy = oc'.constraint_strategy,
                                     !.data = oc'.data,
                                     !.dbm_approx = oc'.dbm_approx,
                                     !.dbm_constr = oc'.dbm_constr,
                                     !.raised = "Exception"]
             /\ Kept' = Kept
       /\ (last_call' # last_call /\ last_call'.missing) =>
             /\ last_call'.raised = "Exception"
             /\ Kept' = Kept
      ]_vars

\* a call without dbm_init on the Rinast constructor after a call that had
\* replayed a trace and returned a sequence
C16_Witness ==
    /\ last_call.call = "rinast"
    /\ last_call.missing
    /\ last_call.raised = "Exception"
    /\ oc.call = "none"
    /\ transCount > 0
    /\ returned # <<>>

\* in a sequence, every Constraint is followed by a Constraint or a Close,
\* and every Close follows a Constraint
ClosedAfterConstraints(seq) ==
    \A k \in 1 .. Len(seq) :
        /\ seq[k].op = "Constraint" =>
              (k < Len(seq) /\ seq[k + 1].op \in {"Constraint", "Close"})
        /\ seq[k].op = "Close" => (k > 1 /\ seq[k - 1].op = "Constraint")

\* C17: in the sequence generate_sequence returns, each maximal run of
\* Constraints is followed by exactly one Close, and there is no other Close,
\* wherever the trace had its Closes
C17_ClosePlacement ==
    (pc = "idle" /\ dijkstra # <<>>) => ClosedAfterConstraints(returned)

\* a returned sequence with a Close after its Constraint, for a trace whose
\* only Close is its first operation
C17_Witness ==
    /\ pc = "idle"
    /\ dijkstra # <<>>
    /\ seq_full # <<>>
    /\ \A k \in 1 .. Len(seq_full) : seq_full[k].op = "Close" <=> k = 1
    /\ \E k \in 1 .. Len(returned) : returned[k].op = "Close"

\* the trace replayed from scratch by a new system
FullReplay == append_sequence_to_ta_system(TASystem, seq_full)

\* update_sequence has returned for the whole trace
Updated == last_call.call = "update_sequence" /\ steps = Len(seq_full)

C19_LazyReducedPath ==
    [][(seq_full' = seq_full /\ last_call'.call = "update_sequence") =>
          /\ eliminations' = 1
          /\ (~invalidated /\ transCount' = transCount) =>
                (eliminations' = eliminations /\ dijkstra' = dijkstra /\ returned' = returned)
          /\ dijkstra'[1].target = currentEvaluation'
          /\ ApplyPath(dijkstra'[1].path, initialNode') = currentEvaluation'
      ]_vars

\* an update_sequence with nothing new to replay, after a call that had
\* replayed the whole trace and reduced it
C19_Witness ==
    /\ last_call.call = "update_sequence"
    /\ last_call.replayed = Len(seq_full)
    /\ steps = Len(seq_full)
    /\ eliminations = 1
    /\ Len(dijkstra[1].path) > 0
    /\ Len(dijkstra[1].path) < transCount

\* the smaller of two DBValues
Least(a, b) == IF compare_to(a, b) <= 0 THEN a ELSE b

\* the min-plus (Floyd-Warshall) closure of an Evaluation, from clock k on
RECURSIVE FloydWarshallFrom(_, _)
FloydWarshallFrom(E, k) ==
    IF k = clock_count THEN E
    ELSE LET next == Stored([ij \in Indices |->
                        Least(E[ij], add(E[(ij \div clock_count) * clock_count + k],
                                         E[k * clock_count + (ij % clock_count)]))])
         IN  FloydWarshallFrom(next, k + 1)

FloydWarshall(E) == FloydWarshallFrom(E, 0)

\* the Evaluation of a non-empty zone: no negative cycle
NonEmpty(E) ==
    \A c \in ClockIdx : compare_to(E[c * clock_count + c], DBValue(0, TRUE)) >= 0

\* an Evaluation with the entry of a constraint replaced by the smaller of
\* the entry and the bound of the constraint
Tightened(E, t) ==
    [E EXCEPT ![t.clock1 * clock_count + t.clock2] = Least(@, t.value)]

\* C20: for the running Evaluation, when it is canonical, and every
\* Constraint of the system that leaves its zone non-empty, the Constraint
\* transformation yields the Floyd-Warshall closure of the Evaluation with
\* the entry of the constraint tightened
C20_ConstraintCanonical ==
    \A operation \in operations :
        (operation.op = "Constraint" /\ FloydWarshall(currentEvaluation) = currentEvaluation) =>
            LET t == TransformationOf(operation)
                closed == FloydWarshall(Tightened(currentEvaluation, t))
            IN  NonEmpty(closed) => apply(t, currentEvaluation) = closed

\* a DBValue plus an integer, as a non-strict bound
Plus(a, v) ==
    IF a.value = MaxSize THEN [value |-> MaxSize, bound |-> FALSE]
    ELSE [value |-> a.value + v, bound |-> a.bound]

\* C21: when a Reset transformation of a clock c other than the reference
\* clock to the value v was applied to an Evaluation E, the result has
\* entry (c, t) = E(0, t) + v and entry (t, c) = E(t, 0) - v for every clock
\* t other than c, and every other entry, (c, c) included, is the entry of E
C21_ResetSemantics ==
    (applied.called /\ applied.transformation.type = "Reset" /\ applied.transformation.clock1 # 0) =>
        LET E == applied.evaluation
            R == applied.result
            c == applied.transformation.clock1
            v == applied.transformation.value.value
        IN  /\ DOMAIN R = Indices
            /\ \A t \in ClockIdx \ {c} :
                  /\ R[c * clock_count + t] = Plus(E[t], v)
                  /\ R[t * clock_count + c] = Plus(E[t * clock_count], 0 - v)
            /\ \A i \in ClockIdx, j \in ClockIdx :
                  ((i # c /\ j # c) \/ (i = c /\ j = c)) =>
                      R[i * clock_count + j] = E[i * clock_count + j]

\* a Reset to a value other than 0 was applied to an Evaluation with a
\* strict, a non-strict and an unbounded entry among the entries it reads
C21_Witness ==
    /\ applied.called
    /\ applied.transformation.type = "Reset"
    /\ applied.transformation.clock1 = 1
    /\ applied.transformation.value.value = MaxVal
    /\ applied.evaluation[2] = DBValue(MaxVal, FALSE)
    /\ applied.evaluation[2 * clock_count] = DBValue(MaxSize, FALSE)
    /\ applied.evaluation[0] = DBValue(0, TRUE)
    /\ applied.result[clock_count + 2] = DBValue(2 * MaxVal, FALSE)
    /\ applied.result[2 * clock_count + 1] = DBValue(MaxSize, FALSE)
    /\ applied.result[1] = DBValue(0 - MaxVal, TRUE)

\* the Evaluations other than E that agree with E on the indices in reads
\* and hold one other cell value at one further index, or at every further
\* index
AgreeingOn(E, reads) ==
    LET others == Indices \ reads
    IN  {[i \in Indices |-> IF i \in S THEN value ELSE E[i]] :
            S \in {{i} : i \in others} \cup {others}, value \in CellValues} \ {E}

\* C22: when a transformation T of the DBMSystem was applied to an
\* Evaluation E1, the result differs from E1 only at indices of T's
\* write-set, and for every Evaluation E2 that agrees with E1 on T's
\* read-set, T(E2) agrees with T(E1) on T's write-set
C22_ReadWriteSetPrecision ==
    applied.called =>
        LET T == applied.transformation
            E1 == applied.evaluation
            writes == get_write_set(T)
        IN  /\ \A i \in Indices \ writes : applied.result[i] = E1[i]
            /\ \A E2 \in AgreeingOn(E1, get_read_set(T)) :
                  LET result == apply(T, E2)
                  IN  \A i \in writes : result[i] = applied.result[i]

\* an Urgent transformation changed an Evaluation that has cells outside
\* the read-set of the transformation
C22_Witness ==
    /\ applied.called
    /\ applied.transformation.type = "Urgent"
    /\ applied.result # applied.evaluation
    /\ AgreeingOn(applied.evaluation, get_read_set(applied.transformation)) # {}
    /\ get_read_set(applied.transformation) # get_write_set(applied.transformation)

\* C24: for every DBValue object, constructed by the constructor, changed
\* by set_value or set_bound or returned by add, a value equal to the
\* sentinel implies that the non-strict flag is false
C24_SentinelInvariant ==
    \A k \in DOMAIN cells : cells[k].value = MaxSize => ~cells[k].bound

\* the sum of two DBValues as a bound: unbounded if one of them is
Sum(a, b) ==
    IF a.value = MaxSize \/ b.value = MaxSize THEN [value |-> MaxSize, bound |-> FALSE]
    ELSE [value |-> a.value + b.value, bound |-> a.bound /\ b.bound]

C23_TransformationsPure ==
    [][system_current.evaluation # 0 =>
          /\ Deref(cells', evaluation_objects'[system_current.evaluation])
                = Deref(cells, evaluation_objects[system_current.evaluation])
          /\ \A k \in DOMAIN nodes :
                /\ nodes'[k] = nodes[k]
                /\ Deref(cells', evaluation_objects'[nodes[k].evaluation]) = nodes[k].stored]_vars

\* MaxTrace transformations were applied, a Reset (a simple
\* transformation) and a Constraint (a compound one) among them, and an
\* Evaluation stored as a node holds a DBValue object that another
\* Evaluation object holds too
C23_Witness ==
    /\ system_current.transCount = MaxTrace
    /\ Len(nodes) > 2
    /\ \E k \in DOMAIN held : held[k].transformation.type = "Constraint"
    /\ \E k \in DOMAIN held : held[k].transformation.type = "Reset"
    /\ \E m \in DOMAIN nodes, e \in DOMAIN evaluation_objects :
          /\ e # nodes[m].evaluation
          /\ \E i \in 1 .. VarCount, j \in DOMAIN evaluation_objects[e] :
                evaluation_objects[nodes[m].evaluation][i] = evaluation_objects[e][j]

\* the position of a location on the construction template's chain
ChainPosition(sys, location) ==
    IF location.name = "Init" THEN 0
    ELSE IF location.name = "Rec" THEN location.index
    ELSE 1 + Cardinality({l \in sys.construction.locations : l.name = "Rec"})

\* C26: state-construction gating in the adapted model.  After
\* add_state_construction_components every original process starts in
\* SYNC_Pre_Init; it leaves that location only in the step in which the
\* construction process takes its last edge, from the last Rec location
\* into End; the construction process moves along Init, Rec1, ..., End one
\* location at a time; so an original location is active only when the
\* construction process has traversed all its Rec locations.
C26_ConstructionGating ==
    [][Adapted' =>
          LET pre_init == Location(sync_prefix \o "Pre_Init", 0)
              before == IF Adapted THEN location_state[dbm_init_inst_name]
                        ELSE Location("Init", 0)
              after == location_state'[dbm_init_inst_name]
          IN  /\ ChainPosition(nta', after) - ChainPosition(nta', before) \in {0, 1}
              /\ \A p \in OriginalNames :
                    /\ ~Adapted => location_state'[p] = pre_init
                    /\ location_state'[p] # pre_init => after = Location("End", 0)
                    /\ (Adapted /\ location_state[p] = pre_init
                                /\ location_state'[p] # pre_init)
                          => /\ before # after
                             /\ location_state'[p] \in OriginalLocations]_vars

\* a construction template with three Rec locations has reached End, one
\* original process has entered its targeted location and moved on, and the
\* other, whose guard did not hold, is still in SYNC_Pre_Init
C26_Witness ==
    /\ Adapted
    /\ Cardinality({l \in nta.construction.locations : l.name = "Rec"}) = 3
    /\ location_state[dbm_init_inst_name] = Location("End", 0)
    /\ location_state["P1"] = Location("id", 0)
    /\ \E e \in nta.templates["P1"].edges :
          e.sync = init_end \o "?" /\ e.target = Location("id", 1)
    /\ location_state["P2"] = Location(sync_prefix \o "Pre_Init", 0)

\* the edges the replay of a list of transformations walks from an
\* Evaluation: the node each step starts from and the edge of the step
RECURSIVE ReplayedEdges(_, _)
ReplayedEdges(path, evaluation) ==
    IF path = <<>> THEN {}
    ELSE LET result == apply(Head(path), evaluation)
         IN  {<<evaluation, Edge(Head(path), result)>>} \cup ReplayedEdges(Tail(path), result)

\* C27: reduction-graph edge soundness.  In every state of the
\* GraphReductor, for every node n and every edge (T, m) of n, whichever
\* way the edge was added, T applied to n's Evaluation gives m's Evaluation.
C27_EdgeSoundness ==
    \A n \in DOMAIN evaluations :
        \A e \in evaluations[n] :
            /\ e.target \in DOMAIN evaluations
            /\ apply(e.transformation, n) = e.target

\* a graph with an edge the replay did not walk out of the current node
\* (added for a stored projection) and one out of another node (added for
\* a matching projection)
C27_Witness ==
    LET replayed == ReplayedEdges(TraceTransformations(seq_full), initialNode)
    IN  /\ \E e \in evaluations[currentNode] : <<currentNode, e>> \notin replayed
        /\ \E n \in DOMAIN evaluations \ {currentNode} :
              \E e \in evaluations[n] : <<n, e>> \notin replayed

\* the number of edges of a shortest path between two nodes of the graph
\* (breadth-first search); -1 if there is none
Distance(evals, initial, target) ==
    LET layers == Layers(evals, {initial}, {initial})
        ds == {d \in 1 .. Len(layers) : target \in layers[d]}
    IN  IF ds = {} THEN 0 - 1 ELSE (CHOOSE d \in ds : TRUE) - 1

\* a list of transformations spells a path of the graph between two nodes
RECURSIVE IsPath(_, _, _, _)
IsPath(evals, path, from, to) ==
    IF path = <<>> THEN from = to
    ELSE \E e \in evals[from] :
            e.transformation = Head(path) /\ IsPath(evals, Tail(path), e.target, to)

\* C28: shortest path in the reduction graph.  The list get_path returns
\* after eliminate spells a path of the graph from the initial node to the
\* current node with the least number of edges any such path has, and the
\* loop of find_shortest_path ends for every graph.
C28_ShortestPath ==
    /\ [](pc = "idle" /\ dijkstra # <<>> =>
             /\ IsPath(evaluations, dijkstra[1].path, initialNode, currentNode)
             /\ Len(dijkstra[1].path) = Distance(evaluations, initialNode, currentNode))
    /\ (pc = "search" /\ search.phase = "running") ~> (search.phase = "finished")

\* a search that ended on a graph with a path of three edges and a shorter
\* one, and returned the shorter one
C28_Witness ==
    /\ pc = "idle"
    /\ dijkstra # <<>>
    /\ transCount = 3
    /\ IsPath(evaluations, TraceTransformations(seq_full), initialNode, currentNode)
    /\ Len(dijkstra[1].path) \in {1, 2}
    /\ Cardinality(DOMAIN evaluations) = 4

\* C29: reduction never lengthens.  For every recorded sequence of n
\* transformations the path of the GraphReductor has at most n
\* transformations, and it is empty when the final Evaluation equals the
\* initial Evaluation.
C29_NeverLengthens ==
    dijkstra # <<>> =>
        /\ Len(dijkstra[1].path) <= transCount
        /\ currentEvaluation = initialNode => dijkstra[1].path = <<>>

\* a recording of MaxTrace transformations that came back to the initial
\* Evaluation, reduced to the empty path
C29_Witness ==
    /\ dijkstra # <<>>
    /\ transCount = MaxTrace
    /\ currentEvaluation = initialNode
    /\ dijkstra[1].path = <<>>

C31_EliminateFixedPoint ==
    (crRaised # "" \/ crTransCount = Len(TraceTransformations(seq_full))) =>
        LET outcome == CounterEliminate(crReductor)
        IN  /\ outcome.raised = ""
            /\ \A k \in 1 .. Len(outcome.reductor.transformations) :
                  LET t == outcome.reductor.transformations[k]
                  IN  t \in DOMAIN outcome.reductor.counters
                        /\ outcome.reductor.counters[t] # 0

\* the last two recorded transformations are Resets of the same clock
EndsWithOverwrittenReset ==
    LET recorded == TraceTransformations(seq_full)
        n == Len(recorded)
    IN  /\ n >= 2
        /\ recorded[n - 1].type = "Reset"
        /\ recorded[n].type = "Reset"
        /\ recorded[n - 1].clock1 = recorded[n].clock1

\* C32: an overwritten reset is dropped.  For every recorded sequence of
\* n >= 2 transformations whose last two are Reset(c, v1) and Reset(c, v2)
\* of the same clock c, the path of the GraphReductor has at most n - 1
\* transformations.
C32_OverwrittenResetDropped ==
    (dijkstra # <<>> /\ EndsWithOverwrittenReset) =>
        Len(dijkstra[1].path) <= Len(TraceTransformations(seq_full)) - 1

\* a recording of MaxTrace transformations that ends with two different
\* resets of one clock to different values, reduced by exactly one
C32_Witness ==
    /\ dijkstra # <<>>
    /\ EndsWithOverwrittenReset
    /\ transCount = MaxTrace
    /\ TraceTransformations(seq_full)[MaxTrace - 1] # TraceTransformations(seq_full)[MaxTrace]
    /\ Len(dijkstra[1].path) = MaxTrace - 1


\* C33: constrainer output lengths are ordered.  For a canonical target zone
\* T and a source zone Z, the sequence of RCS for Z and T is at most as long
\* as the sequence of MCS for T, which is at most as long as the sequence of
\* FCS for T; the lengths count Constraint and Close operations.
C33_ConstrainerLengthsOrdered ==
    (/\ oc.call = "time_measured_constraint"
     /\ ZoneClose(oc.data.dbm_target) = oc.data.dbm_target) =>
        LET via_mcs == generate_constraint_sequence_via_mcs(oc.data.dbm_target)
            via_fcs == generate_constraint_sequence_via_fcs(oc.data.dbm_target)
        IN  /\ Len(via_mcs) <= Len(via_fcs)
            /\ oc.constraint_strategy = "MCS" => oc.seq_constr = via_mcs
            /\ oc.constraint_strategy = "FCS" => oc.seq_constr = via_fcs
            /\ oc.constraint_strategy = "RCS" => Len(oc.seq_constr) <= Len(via_mcs)

\* RCS from a source zone other than the target, strictly shorter than MCS,
\* which is strictly shorter than FCS
C33_Witness ==
    /\ oc.call = "time_measured_constraint"
    /\ oc.constraint_strategy = "RCS"
    /\ ZoneClose(oc.data.dbm_target) = oc.data.dbm_target
    /\ oc.data.dbm_init # oc.data.dbm_target
    /\ CountOf(oc.seq_constr, "Constraint") > 0
    /\ Len(oc.seq_constr)
          < Len(generate_constraint_sequence_via_mcs(oc.data.dbm_target))
    /\ Len(generate_constraint_sequence_via_mcs(oc.data.dbm_target))
          < Len(generate_constraint_sequence_via_fcs(oc.data.dbm_target))


\* the approximation sequence kept by the approximator after its updates is
\* the one generated from the operations it was given so far
UpdatesEqualRegeneration ==
    generators.SEQ =
        generate_approximation_sequence_via_seq(SubSeq(seq_full, 1, steps), apx_clocks)

\* C34 as stated: for all traces S1, S2 and every clock list C, updating the
\* approximation generated from S1 by S2 gives the approximation generated
\* from S1 followed by S2.
C34_AnyClockList ==
    oc.call = "none" => UpdatesEqualRegeneration

\* C34: incremental sequence-based approximation equals regeneration.  For
\* all traces S1, S2 and every clock list C that is not empty, updating the
\* approximation generated from S1 by S2 gives the approximation generated
\* from S1 followed by S2; hence the approximation kept after the increments
\* of any split of a trace is the approximation of the whole trace.
C34_IncrementalEqualsRegeneration ==
    (oc.call = "none" /\ apx_clocks # <<>>) => UpdatesEqualRegeneration

\* two updates, the second of which drops a Reset and a DelayFuture that the
\* first one kept
C34_Witness ==
    /\ oc.call = "none"
    /\ apx_clocks # <<>>
    /\ steps = Len(seq_full)
    /\ steps >= 4
    /\ \E k \in 2 .. (steps - 2) :
          LET first == generate_approximation_sequence_via_seq(SubSeq(seq_full, 1, k), apx_clocks)
          IN  /\ Len(first) >= 2
              /\ Len(generators.SEQ) < Len(first) + (steps - k)
              /\ Len(generators.SEQ) >= 3
              /\ generators.SEQ =
                    update_approximation_sequence_via_seq(
                        first, SubSeq(seq_full, k + 1, steps), apx_clocks)


\* the Constraint transformations over the clocks of the system: every pair
\* of distinct clocks, the reference clock included, with every bound of up
\* to MaxVal, strict or not
ConstraintTransformations ==
    {ConstraintT(c1, c2, DBValue(v, b)) :
        c1 \in ClockIdx, c2 \in ClockIdx, v \in (0 - MaxVal) .. MaxVal, b \in BOOLEAN}

\* C35: the Constraint transformation is idempotent.  For the running
\* Evaluation, reached from the all-zero Evaluation by the recorded
\* transformations, and every Constraint between two distinct clocks,
\* applying the transformation to its own result yields that result.  The
\* Constraints considered are those that leave the zone of the Evaluation
\* non-empty (with a negative cycle every application lowers the entries
\* again), which the statement for every Constraint implies.
C35_ConstraintIdempotent ==
    \A t \in ConstraintTransformations :
        (t.clock1 # t.clock2 /\ NonEmpty(FloydWarshall(Tightened(currentEvaluation, t)))) =>
            apply(t, apply(t, currentEvaluation)) = apply(t, currentEvaluation)


\* C36: a failed on-the-fly reconstruction leaves the state unchanged.  When
\* time_measured_reconstruction is called with on_the_fly on, the
\* sequence-based approximator and data that has a dbm_init, and the call
\* raises in its constraint phase, the approximation sequence the
\* approximator stores after the call is the one it stored before.
C36_FailedReconstructionUnchanged ==
    [][(/\ on_the_fly
        /\ oc.call = "none"
        /\ oc'.call = "time_measured_reconstruction"
        /\ oc'.approximation_strategy = "SEQ"
        /\ oc'.data.dbm_init # NoZone
        /\ oc'.raised = "Exception") =>
            generators'.SEQ = generators.SEQ
      ]_vars


(***************************************************************************)
(* get_all_pos_prefix_path on its own, called by a client with a weighted  *)
(* graph of its own.  A graph gives every node the list of its out-edges,  *)
(* in the order of node.out_edges.items().                                 *)
(***************************************************************************)
\* the nodes of the graphs of the client, one per clock
GraphNodes == 0 .. (ClockCount - 1)

\* the weights of the edges: -inf for "no bound", and small integers
Weights == {0 - inf, 0 - MaxVal, 0, MaxVal}

WeightedEdge(target, weight) == [target |-> target, weight |-> weight]

\* the lists of out-edges a node can have: to other nodes, at most one edge
\* to a node
OutEdges(node) ==
    LET edges == {WeightedEdge(t, w) : t \in GraphNodes \ {node}, w \in Weights}
        lists == UNION {[1 .. k -> edges] : k \in 0 .. (ClockCount - 1)}
    IN  {list \in lists : \A a, b \in DOMAIN list : list[a].target = list[b].target => a = b}

\* the graphs of the client: a list of out-edges for every node from a node on
RECURSIVE GraphsFrom(_)
GraphsFrom(node) ==
    IF node = ClockCount THEN {<<>>}
    ELSE {<<list>> \o graph : list \in OutEdges(node), graph \in GraphsFrom(node + 1)}

WeightedGraphs == GraphsFrom(0)

\* the out-edges of a node of a graph
out_edges(graph, node) == graph[node + 1]

\* get_all_pos_prefix_path(graph, curr_node, ord_p, path_sum, visited_nodes);
\* ord_p is never read.  TryEdges is the for loop from the k-th out-edge on.
RECURSIVE get_all_pos_prefix_path(_, _, _, _)
RECURSIVE TryEdges(_, _, _, _, _)
TryEdges_FirstEdgeOnly(graph, curr_node, path_sum, visited_nodes, k) ==
    IF k > Len(out_edges(graph, curr_node)) THEN NoPath
    ELSE LET edge == out_edges(graph, curr_node)[k]
             new_path_sum == ValueAdd(path_sum, edge.weight)
         IN  IF InList(visited_nodes, edge.target)
             THEN TryEdges(graph, curr_node, path_sum, visited_nodes, k + 1)
             ELSE IF new_path_sum >= 0
             THEN get_all_pos_prefix_path(graph, edge.target, new_path_sum, visited_nodes)
             ELSE TryEdges(graph, curr_node, path_sum, visited_nodes, k + 1)

TryEdges(graph, curr_node, path_sum, visited_nodes, k) ==
    IF k > Len(out_edges(graph, curr_node)) THEN NoPath
    ELSE LET edge == out_edges(graph, curr_node)[k]
             new_path_sum == ValueAdd(path_sum, edge.weight)
         IN  IF InList(visited_nodes, edge.target)
             THEN TryEdges(graph, curr_node, path_sum, visited_nodes, k + 1)
             ELSE IF new_path_sum >= 0
             THEN LET visited_nodes_ret ==
                          get_all_pos_prefix_path(graph, edge.target, new_path_sum, visited_nodes)
                  IN  IF visited_nodes_ret # NoPath THEN visited_nodes_ret
                      ELSE TryEdges(graph, curr_node, path_sum, visited_nodes, k + 1)
             ELSE TryEdges(graph, curr_node, path_sum, visited_nodes, k + 1)

get_all_pos_prefix_path(graph, curr_node, path_sum, visited_nodes) ==
    LET visited == Append(visited_nodes, curr_node)
    IN  IF Len(visited) = Len(graph) THEN visited
        ELSE TryEdges(graph, curr_node, path_sum, visited, 1)

\* the client calls get_all_pos_prefix_path(graph, start, ord_p, 0, [])
get_all_pos_prefix_path_call ==
    /\ ~walk.called
    /\ \E graph \in WeightedGraphs, start \in GraphNodes :
          walk' = [called |-> TRUE, graph |-> graph, start |-> start,
                   result |-> get_all_pos_prefix_path(graph, start, 0, <<>>)]
    /\ UNCHANGED <<rinastVars, ocVars, entryVars, passed, applied, heapVars, adaptedVars, search>>

NextPath == get_all_pos_prefix_path_call

InitPath == InitRinast(PairSystem(ClockCount))

SpecPath == InitPath /\ [][NextPath]_vars

\* the lists of all nodes of a graph, each once, that begin with a node
NodeOrderings(graph, start) ==
    {list \in [1 .. Len(graph) -> 0 .. (Len(graph) - 1)] :
        /\ list[1] = start
        /\ \A a, b \in DOMAIN list : list[a] = list[b] => a = b}

\* the sum of the weights of the first k edges along a list of nodes
RECURSIVE PrefixSum(_, _, _)
PrefixSum(graph, list, k) ==
    IF k = 0 THEN 0
    ELSE LET from == out_edges(graph, list[k])
             edge == CHOOSE e \in {from[n] : n \in DOMAIN from} : e.target = list[k + 1]
         IN  ValueAdd(PrefixSum(graph, list, k - 1), edge.weight)

\* a list of nodes along which the graph has edges, every prefix sum of
\* whose weights is at least 0
AllPositivePrefix(graph, list) ==
    /\ \A k \in 1 .. (Len(list) - 1) :
          \E n \in DOMAIN out_edges(graph, list[k]) :
              out_edges(graph, list[k])[n].target = list[k + 1]
    /\ \A k \in 1 .. (Len(list) - 1) :
          PrefixSum(graph, list, k) >= 0

\* C37: all-positive-prefix path search.  For every weighted graph and start
\* node, get_all_pos_prefix_path returns None or a list that begins with the
\* start node, holds every node of the graph exactly once, and along which
\* every prefix sum of edge weights is at least 0; it returns None only if
\* the graph has no such list.
C37_AllPositivePrefixPath ==
    walk.called =>
        IF walk.result = NoPath
        THEN \A list \in NodeOrderings(walk.graph, walk.start) :
                ~AllPositivePrefix(walk.graph, list)
        ELSE /\ walk.result \in NodeOrderings(walk.graph, walk.start)
             /\ AllPositivePrefix(walk.graph, walk.result)

\* a search that went back from a dead end after a first edge it could
\* take, and returned a path over another first edge whose weights are not
\* all at least 0
C37_Witness ==
    /\ walk.called
    /\ walk.result # NoPath
    /\ LET first == out_edges(walk.graph, walk.start)[1]
       IN  /\ first.weight >= 0
           /\ first.target # walk.result[2]
           /\ \E n \in DOMAIN out_edges(walk.graph, first.target) :
                 ~InList(<<walk.start, first.target>>, out_edges(walk.graph, first.target)[n].target)
    /\ \E k \in 1 .. (Len(walk.result) - 1) :
          PrefixSum(walk.graph, walk.result, k) < PrefixSum(walk.graph, walk.result, k - 1)

\* a search that returned None for a graph in which every node has an edge
\* to every other node
C37_WitnessNone ==
    /\ walk.called
    /\ walk.result = NoPath
    /\ \A node \in GraphNodes : Len(out_edges(walk.graph, node)) = ClockCount - 1


\* the place of the class of an operation in a block Constraint* Close*
\* Reset* DelayFuture*
ClassRank(operation) ==
    CASE operation.op = "Constraint" -> 1
      [] operation.op = "Close" -> 2
      [] operation.op = "Reset" -> 3
      [] operation.op = "DelayFuture" -> 4

\* the positions at which the maximal blocks of a sequence start, ascending
BlockStarts(seq) ==
    SortedSeq({k \in 1 .. Len(seq) : k = 1 \/ ClassRank(seq[k]) < ClassRank(seq[k - 1])})

\* the n-th maximal block of a sequence
BlockOf(seq, n) ==
    LET starts == BlockStarts(seq)
    IN  SubSeq(seq, starts[n], IF n = Len(starts) THEN Len(seq) ELSE starts[n + 1] - 1)

\* the operations of a class in a list of operations, in order
OfClass(list, class) ==
    LET InClass(operation) == operation.op = class IN SelectSeq(list, InClass)

\* C38: sequence-to-model grouping.  For every operation sequence handed to
\* the adaptor, insert_state_construction_template returns; the blocks it
\* gathered are the maximal blocks Constraint* Close* Reset* DelayFuture* of
\* the sequence, so that every operation is in exactly one block, in order;
\* the template has one location Rec n and one edge into it, from the
\* location before it, for the n-th block, and no other Rec location; the
\* edge carries the constraints of the block as guards and its resets as
\* updates, in sequence order; and Rec n is urgent unless the block has a
\* DelayFuture.
C38_SequenceGrouping ==
    Adapted =>
        LET tmpl == nta.construction
            starts == BlockStarts(construction_seq)
            blocks == [n \in 1 .. Len(starts) |-> BlockOf(construction_seq, n)]
        IN  /\ Flatten(blocks) = construction_seq
            /\ {l \in tmpl.locations : l.name = "Rec"}
                  = {Location("Rec", n) : n \in 1 .. Len(starts)}
            /\ \A n \in 1 .. Len(starts) :
                  LET incoming == {e \in tmpl.edges : e.target = Location("Rec", n)}
                  IN  /\ Cardinality(incoming) = 1
                      /\ \A e \in incoming :
                            /\ e.source = IF n = 1 THEN Location("Init", 0)
                                          ELSE Location("Rec", n - 1)
                            /\ e.sync = ""
                            /\ e.guards = OfClass(blocks[n], "Constraint")
                            /\ e.resets = OfClass(blocks[n], "Reset")
                      /\ Location("Rec", n) \in tmpl.urgent
                            <=> OfClass(blocks[n], "DelayFuture") = <<>>

\* a sequence of two blocks, a reset and a delay and then two different
\* constraints, whose construction process has reached End
C38_Witness ==
    /\ Adapted
    /\ Len(construction_seq) = MaxSeq
    /\ Len(BlockStarts(construction_seq)) = 2
    /\ \E e \in nta.construction.edges :
          /\ e.target = Location("Rec", 1)
          /\ Len(e.resets) = 1
          /\ e.guards = <<>>
    /\ \E e \in nta.construction.edges :
          /\ e.target = Location("Rec", 2)
          /\ Len(e.guards) = 2
          /\ e.guards[1] # e.guards[2]
    /\ Location("Rec", 1) \notin nta.construction.urgent
    /\ Location("Rec", 2) \in nta.construction.urgent
    /\ location_state[dbm_init_inst_name] = Location("End", 0)

====
